---- MODULE Spec2Model ----
(***************************************************************************)
(* Galactic Toast: the session lifecycle (resetGame, startGame, exitGame,  *)
(* handleKey, loop) and the simulation step updateGame of                  *)
(* src/src/GalacticToast.tsx.                                              *)
(*                                                                         *)
(* Units.  Time is in milliseconds, speeds are in pixels per second, and   *)
(* every coordinate and size is kept in thousandths of a pixel, so that    *)
(* "speed * dt" of the source (dt in seconds) is the integer product       *)
(* speed * dtMs here.  A fractional factor of the source (0.85, 1.2, 0.7,  *)
(* 1.35, 1/sqrt 2, sin) is applied as an integer ratio with \div, which   *)
(* truncates where the source keeps a fraction of a unit.  Math.random()   *)
(* is a draw r in 0..99 standing for the real r/100.                       *)
(***************************************************************************)
EXTENDS Integers, Sequences, FiniteSets, TLC

VARIABLES
    assets,        \* assetsRef.current: <<>> (null) or <<sprite sizes>>
    assetsReady,   \* React state assetsReady
    loadingError,  \* React state loadingError (TRUE when set)
    mode,          \* modeRef.current / React state mode (setModeSafe sets both)
    game,          \* gameRef.current: <<>> (null) or <<GameState>>
    controls,      \* controlsRef.current
    stats,         \* statsRef.current / React state stats
    lastScore,     \* React state lastScore
    clock,         \* performance.now() / the last animation-frame timestamp
    lastTime,      \* lastTimeRef.current
    raf,           \* rafRef.current: the handle of the pending frame request
    audio,         \* audioUnlockedRef.current and whether the music plays
    last,          \* the locals of the latest updateGame call of the session
    calls          \* history: startGame/resetGame calls made without assets

\* The state of the program proper.
programVars == <<assets, assetsReady, loadingError, mode, game, controls,
                 stats, lastScore, clock, lastTime, raf, audio, last>>

vars == <<assets, assetsReady, loadingError, mode, game, controls, stats,
          lastScore, clock, lastTime, raf, audio, last, calls>>

---------------------------------------------------------------------------
(* Program constants (GalacticToast.tsx lines 13-51).                      *)

WIDTH == 800
HEIGHT == 600
PLAYER_SPEED == 320
SHOT_SPEED == 640
BASE_ENEMY_SPEED == 180
MAX_ENEMY_SPEED == 420
BASE_SPAWN_MS == 1100
MIN_SPAWN_MS == 350
SHOT_COOLDOWN_MS == 250
INVULNERABLE_MS == 1000
MAX_SHOTS_BASE == 2
MAX_SHOTS_CAP == 6
LIVES_START == 3
COMBO_WINDOW_MS == 2400
POWERUP_DROP_BASE == 12
POWERUP_DROP_COMBO_BONUS == 3
POWERUP_SPEED == 140
POWERUP_SIZE == 30
BOOST_MULTIPLIER == 135
BOOST_DURATION_MS == 6000
BURST_COOLDOWN_MS == 140
BURST_DURATION_MS == 6000
BURST_BONUS_SHOTS == 2
BURST_SPREAD_SPEED == 140
BURST_SPREAD_OFFSET == 10
SLOW_DURATION_MS == 5200
SLOW_MULTIPLIER == 70
SHIELD_CAP == 2

\* Milliseconds per second (loop divides the frame gap by 1000); also the
\* number of coordinate units per pixel, see Units above.
MS_PER_S == 1000
\* The frame loop's cap on the elapsed time of one step, 0.05 s, in ms.
MAX_DT_MS == 50
\* First upgrade threshold and its increment (resetGame, updateGame).
UPGRADE_STEP == 15
\* Most power-ups alive at once for a drop to be rolled (updateGame).
POWERUP_LIMIT == 3
\* Vertical offset of the two shards of a splitter, in pixels.
SHARD_OFFSET == 14

Px(n) == n * MS_PER_S

---------------------------------------------------------------------------
(* Geometry utilities and difficulty curve.                                *)

Min(a, b) == IF a < b THEN a ELSE b
Max(a, b) == IF a > b THEN a ELSE b

clamp(value, lo, hi) == Min(Max(value, lo), hi)

\* Variant of spawnInterval without the floor at MIN_SPAWN_MS.
spawnIntervalUnfloored(score) ==
    BASE_SPAWN_MS - (score \div 10) * 80

spawnInterval(score) ==
    Max(MIN_SPAWN_MS, BASE_SPAWN_MS - (score \div 10) * 80)

enemySpeed(score) ==
    Min(MAX_ENEMY_SPEED, BASE_ENEMY_SPEED + (score \div 5) * 12)

rectsIntersect(a, b) ==
    /\ a.x < b.x + b.width
    /\ a.x + a.width > b.x
    /\ a.y < b.y + b.height
    /\ a.y + a.height > b.y

---------------------------------------------------------------------------
(* Randomness.  A draw r stands for Math.random() = r/100.                 *)

\* Math.floor(Math.random() * (max - min + 1)) + min
randomBetween(lo, hi, r) == (r * (hi - lo + 1)) \div 100 + lo

\* Math.PI in thousandths of a radian.
PI_MILLI == 3142

\* Math.sin of an angle given in thousandths of a radian, in thousandths
\* (Bhaskara's rational approximation, within 2 thousandths of the sine).
sinMilli(a) ==
    LET m == a % (2 * PI_MILLI)
        x == IF m <= PI_MILLI THEN m ELSE m - PI_MILLI
        p == (x * (PI_MILLI - x)) \div 1000
        v == (16000 * p) \div (49348 - 4 * p)
    IN  IF m <= PI_MILLI THEN v ELSE 0 - v

---------------------------------------------------------------------------
(* Entity factories.                                                       *)

\* Variant of pickEnemyKind whose two score thresholds are one lower.
pickEnemyKindEarly(score, roll) ==
    IF score < 7 THEN (IF roll < 75 THEN "drifter" ELSE "zigzag")
    ELSE IF score < 17
         THEN (IF roll < 50 THEN "drifter"
               ELSE IF roll < 75 THEN "zigzag" ELSE "armored")
    ELSE IF roll < 45 THEN "drifter"
    ELSE IF roll < 70 THEN "zigzag"
    ELSE IF roll < 88 THEN "armored"
    ELSE "splitter"

pickEnemyKind(score, roll) ==
    IF score < 8 THEN (IF roll < 75 THEN "drifter" ELSE "zigzag")
    ELSE IF score < 18
         THEN (IF roll < 50 THEN "drifter"
               ELSE IF roll < 75 THEN "zigzag" ELSE "armored")
    ELSE IF roll < 45 THEN "drifter"
    ELSE IF roll < 70 THEN "zigzag"
    ELSE IF roll < 88 THEN "armored"
    ELSE "splitter"

\* d: the draws of one createEnemy call, in call order
\* (kind, speed, amplitude, frequency, phase, spawnY).
createEnemy(a, score, d) ==
    LET base == enemySpeed(score)
        kind == pickEnemyKind(score, d.kind)
        speed0 == randomBetween(Max(120, base - 30), base + 30, d.speed)
        sizeScale == CASE kind = "zigzag" -> 90
                       [] kind = "armored" -> 115
                       [] kind = "splitter" -> 105
                       [] OTHER -> 100
        hp == IF kind = "armored" THEN 2 ELSE 1
        speed == IF kind = "armored" THEN (speed0 * 85) \div 100 ELSE speed0
        waveAmplitude == IF kind = "zigzag"
                         THEN randomBetween(18, 34, d.amplitude) ELSE 0
        waveFrequency == IF kind = "zigzag"
                         THEN randomBetween(6, 10, d.frequency) ELSE 0
        wavePhase == IF kind = "zigzag"
                     THEN (d.phase * 2 * PI_MILLI) \div 100 ELSE 0
        enemyWidth == (a.enemy.width * sizeScale) \div 100
        enemyHeight == (a.enemy.height * sizeScale) \div 100
        spawnY == randomBetween((enemyHeight \div 2) \div MS_PER_S,
                                (Px(HEIGHT) - enemyHeight \div 2) \div MS_PER_S,
                                d.spawnY)
        baseY == Px(spawnY) - enemyHeight \div 2
    IN  [x |-> Px(WIDTH + 10), y |-> baseY,
         width |-> enemyWidth, height |-> enemyHeight,
         speed |-> speed, kind |-> kind, hp |-> hp, baseY |-> baseY,
         waveAmplitude |-> waveAmplitude, waveFrequency |-> waveFrequency,
         wavePhase |-> wavePhase, sizeScale |-> sizeScale]

\* Variant of createShard that offsets the source's top, not its centre.
createShardFromTop(a, source, offsetY) ==
    LET sizeScale == 65
        enemyWidth == (a.enemy.width * sizeScale) \div 100
        enemyHeight == (a.enemy.height * sizeScale) \div 100
        baseY == clamp(source.y + Px(offsetY), 0, Px(HEIGHT) - enemyHeight)
    IN  [x |-> source.x + (source.width * 3) \div 10, y |-> baseY,
         width |-> enemyWidth, height |-> enemyHeight,
         speed |-> (source.speed * 12) \div 10, kind |-> "shard", hp |-> 1,
         baseY |-> baseY, waveAmplitude |-> 0, waveFrequency |-> 0,
         wavePhase |-> 0, sizeScale |-> sizeScale]

createShard(a, source, offsetY) ==
    LET sizeScale == 65
        enemyWidth == (a.enemy.width * sizeScale) \div 100
        enemyHeight == (a.enemy.height * sizeScale) \div 100
        baseY == clamp(source.y + source.height \div 2 - enemyHeight \div 2
                         + Px(offsetY),
                       0, Px(HEIGHT) - enemyHeight)
    IN  [x |-> source.x + (source.width * 3) \div 10, y |-> baseY,
         width |-> enemyWidth, height |-> enemyHeight,
         speed |-> (source.speed * 12) \div 10, kind |-> "shard", hp |-> 1,
         baseY |-> baseY, waveAmplitude |-> 0, waveFrequency |-> 0,
         wavePhase |-> 0, sizeScale |-> sizeScale]

pickPowerUpKind(roll) ==
    IF roll < 30 THEN "boost"
    ELSE IF roll < 55 THEN "burst"
    ELSE IF roll < 78 THEN "slow"
    ELSE "shield"

createPowerUp(kind, x, y, r) ==
    LET size == Px(POWERUP_SIZE)
    IN  [x |-> clamp(x - size \div 2, 0, Px(WIDTH) - size),
         y |-> clamp(y - size \div 2, 0, Px(HEIGHT) - size),
         width |-> size, height |-> size,
         speed |-> randomBetween(POWERUP_SPEED - 20, POWERUP_SPEED + 30, r),
         kind |-> kind]

---------------------------------------------------------------------------
(* Session/reset lifecycle and HUD projection.                             *)

NoControls ==
    [up |-> FALSE, down |-> FALSE, left |-> FALSE, right |-> FALSE,
     shoot |-> FALSE]

InitialStats ==
    [score |-> 0, lives |-> LIVES_START, ammo |-> MAX_SHOTS_BASE,
     combo |-> 0, shield |-> 0]

\* The player and state literals of resetGame.
NewPlayer(a) ==
    [x |-> Px(80) - a.player.width \div 2,
     y |-> Px(HEIGHT) \div 2 - a.player.height \div 2,
     width |-> a.player.width, height |-> a.player.height,
     speed |-> PLAYER_SPEED, maxShots |-> MAX_SHOTS_BASE, lastShotMs |-> 0,
     invulnerableUntil |-> 0, shield |-> 0]

NewState(a, nowMs) ==
    [score |-> 0, lives |-> LIVES_START, lastSpawnMs |-> nowMs,
     nextShotUpgrade |-> UPGRADE_STEP, combo |-> 0, comboExpiresAt |-> 0,
     boostUntil |-> 0, burstUntil |-> 0, slowUntil |-> 0,
     player |-> NewPlayer(a), shots |-> <<>>, enemies |-> <<>>,
     powerUps |-> <<>>]

\* Variant of ProjectStats whose ammo is not held at 0 from below.
ProjectStatsUnfloored(state, nowMs) ==
    LET bonusShots == IF nowMs < state.burstUntil THEN BURST_BONUS_SHOTS ELSE 0
        maxShots == state.player.maxShots + bonusShots
    IN  [score |-> state.score, lives |-> state.lives,
         ammo |-> maxShots - Len(state.shots),
         combo |-> state.combo, shield |-> state.player.shield]

\* The stats syncStats derives from a state.
ProjectStats(state, nowMs) ==
    LET bonusShots == IF nowMs < state.burstUntil THEN BURST_BONUS_SHOTS ELSE 0
        maxShots == state.player.maxShots + bonusShots
    IN  [score |-> state.score, lives |-> state.lives,
         ammo |-> Max(maxShots - Len(state.shots), 0),
         combo |-> state.combo, shield |-> state.player.shield]

---------------------------------------------------------------------------
(* The simulation step updateGame, one operator per phase.                 *)

\* Phase 1, movement.  Math.hypot is 1 on an axis and sqrt 2 on a diagonal;
\* 1/sqrt 2 is applied as 7071/10000.
Axis(direction, diagonal, distance) ==
    IF diagonal THEN direction * ((distance * 7071) \div 10000)
    ELSE direction * distance

\* Variant of MovePlayer that leaves the moved position unclamped.
MovePlayerUnclamped(state, dtMs, nowMs, c) ==
    LET boostActive == nowMs < state.boostUntil
        directionX == (IF c.right THEN 1 ELSE 0) - (IF c.left THEN 1 ELSE 0)
        directionY == (IF c.down THEN 1 ELSE 0) - (IF c.up THEN 1 ELSE 0)
        diagonal == directionX # 0 /\ directionY # 0
        playerSpeed == IF boostActive
                       THEN (state.player.speed * BOOST_MULTIPLIER) \div 100
                       ELSE state.player.speed
    IN  [state EXCEPT
            !.player.x = @ + Axis(directionX, diagonal, playerSpeed * dtMs),
            !.player.y = @ + Axis(directionY, diagonal, playerSpeed * dtMs)]

MovePlayer(state, dtMs, nowMs, c) ==
    LET boostActive == nowMs < state.boostUntil
        directionX == (IF c.right THEN 1 ELSE 0) - (IF c.left THEN 1 ELSE 0)
        directionY == (IF c.down THEN 1 ELSE 0) - (IF c.up THEN 1 ELSE 0)
        diagonal == directionX # 0 /\ directionY # 0
        playerSpeed == IF boostActive
                       THEN (state.player.speed * BOOST_MULTIPLIER) \div 100
                       ELSE state.player.speed
        x1 == state.player.x + Axis(directionX, diagonal, playerSpeed * dtMs)
        y1 == state.player.y + Axis(directionY, diagonal, playerSpeed * dtMs)
    IN  IF directionX # 0 \/ directionY # 0
        THEN [state EXCEPT
                !.player.x = clamp(x1, 0, Px(WIDTH) - state.player.width),
                !.player.y = clamp(y1, 0, Px(HEIGHT) - state.player.height)]
        ELSE state

\* Phase 2, firing.
BurstPatterns ==
    << [offset |-> 0, velocityY |-> 0],
       [offset |-> 0 - BURST_SPREAD_OFFSET, velocityY |-> 0 - BURST_SPREAD_SPEED],
       [offset |-> BURST_SPREAD_OFFSET, velocityY |-> BURST_SPREAD_SPEED] >>

SinglePattern == << [offset |-> 0, velocityY |-> 0] >>

NewShot(a, player, pattern) ==
    [x |-> player.x + player.width,
     y |-> player.y + player.height \div 2 - a.shot.height \div 2
             + Px(pattern.offset),
     width |-> a.shot.width, height |-> a.shot.height,
     velocityX |-> SHOT_SPEED, velocityY |-> pattern.velocityY]

\* Variant of PushShots without the break at maxShots.
RECURSIVE PushShotsUncapped(_, _, _, _, _, _)
PushShotsUncapped(a, player, shots, patterns, i, maxShots) ==
    IF i > Len(patterns) THEN shots
    ELSE PushShotsUncapped(a, player,
                           Append(shots, NewShot(a, player, patterns[i])),
                           patterns, i + 1, maxShots)

\* for (const pattern of patterns) { if (length >= maxShots) break; push }
RECURSIVE PushShots(_, _, _, _, _, _)
PushShots(a, player, shots, patterns, i, maxShots) ==
    IF i > Len(patterns) \/ Len(shots) >= maxShots THEN shots
    ELSE PushShots(a, player, Append(shots, NewShot(a, player, patterns[i])),
                   patterns, i + 1, maxShots)

\* Variant of FireShots that applies the burst cooldown whether or not the
\* burst is active.
FireShotsBurstCadence(a, state, nowMs, c) ==
    LET burstActive == nowMs < state.burstUntil
        bonusShots == IF burstActive THEN BURST_BONUS_SHOTS ELSE 0
        maxShots == state.player.maxShots + bonusShots
        patterns == IF burstActive THEN BurstPatterns ELSE SinglePattern
    IN  IF /\ c.shoot
           /\ nowMs - state.player.lastShotMs >= BURST_COOLDOWN_MS
           /\ Len(state.shots) < maxShots
        THEN [state EXCEPT
                !.player.lastShotMs = nowMs,
                !.shots = PushShots(a, state.player, state.shots, patterns,
                                    1, maxShots)]
        ELSE state

FireShots(a, state, nowMs, c) ==
    LET burstActive == nowMs < state.burstUntil
        shotCooldown == IF burstActive THEN BURST_COOLDOWN_MS
                        ELSE SHOT_COOLDOWN_MS
        bonusShots == IF burstActive THEN BURST_BONUS_SHOTS ELSE 0
        maxShots == state.player.maxShots + bonusShots
        patterns == IF burstActive THEN BurstPatterns ELSE SinglePattern
    IN  IF /\ c.shoot
           /\ nowMs - state.player.lastShotMs >= shotCooldown
           /\ Len(state.shots) < maxShots
        THEN [state EXCEPT
                !.player.lastShotMs = nowMs,
                !.shots = PushShots(a, state.player, state.shots, patterns,
                                    1, maxShots)]
        ELSE state

\* Phase 3, shot advance and prune.
ShotOnScreen(shot) ==
    /\ shot.x < Px(WIDTH) + shot.width
    /\ shot.y > 0 - shot.height
    /\ shot.y < Px(HEIGHT) + shot.height

AdvanceShots(state, dtMs) ==
    LET moved == [i \in 1..Len(state.shots) |->
                    [state.shots[i] EXCEPT
                       !.x = @ + state.shots[i].velocityX * dtMs,
                       !.y = @ + state.shots[i].velocityY * dtMs]]
    IN  [state EXCEPT !.shots = SelectSeq(moved, ShotOnScreen)]

\* Phase 4, spawn.
SpawnDue(state, nowMs) ==
    nowMs - state.lastSpawnMs >= spawnInterval(state.score)

SpawnEnemy(a, state, nowMs, d) ==
    IF SpawnDue(state, nowMs)
    THEN [state EXCEPT
            !.enemies = Append(@, createEnemy(a, state.score, d)),
            !.lastSpawnMs = nowMs]
    ELSE state

\* Phase 5, obstacle advance.
AdvanceEnemy(enemy, slowActive, dtMs, nowMs) ==
    LET x1 == IF slowActive
              THEN enemy.x - (enemy.speed * SLOW_MULTIPLIER * dtMs) \div 100
              ELSE enemy.x - enemy.speed * dtMs
        wave == enemy.baseY
                  + sinMilli(nowMs * enemy.waveFrequency + enemy.wavePhase)
                      * enemy.waveAmplitude
    IN  IF enemy.waveAmplitude > 0
        THEN [enemy EXCEPT !.x = x1,
                           !.y = clamp(wave, 0, Px(HEIGHT) - enemy.height)]
        ELSE [enemy EXCEPT !.x = x1]

AdvanceEnemies(state, dtMs, nowMs) ==
    LET slowActive == nowMs < state.slowUntil
    IN  [state EXCEPT !.enemies =
            [i \in 1..Len(@) |-> AdvanceEnemy(@[i], slowActive, dtMs, nowMs)]]

\* Phase 6, escape accounting.
Escaped(enemy) == enemy.x + enemy.width < 0
OnScreen(enemy) == ~Escaped(enemy)

EscapedCount(state) == Len(SelectSeq(state.enemies, Escaped))

\* Variant of EscapeAccounting that never takes lives below 0.
EscapeAccountingFloored(state) ==
    LET escaped == EscapedCount(state)
        kept == [state EXCEPT !.enemies = SelectSeq(@, OnScreen)]
    IN  IF escaped > 0
        THEN [kept EXCEPT !.lives = Max(@ - escaped, 0), !.combo = 0,
                          !.comboExpiresAt = 0]
        ELSE kept

\* Variant of EscapeAccounting that charges one life however many escaped.
EscapeAccountingOnce(state) ==
    LET kept == [state EXCEPT !.enemies = SelectSeq(@, OnScreen)]
    IN  IF EscapedCount(state) > 0
        THEN [kept EXCEPT !.lives = @ - 1, !.combo = 0, !.comboExpiresAt = 0]
        ELSE kept

EscapeAccounting(state) ==
    LET escaped == EscapedCount(state)
        kept == [state EXCEPT !.enemies = SelectSeq(@, OnScreen)]
    IN  IF escaped > 0
        THEN [kept EXCEPT !.lives = @ - escaped, !.combo = 0,
                          !.comboExpiresAt = 0]
        ELSE kept

\* Phase 7, power-up advance and prune.
PowerUpOnScreen(powerUp) == powerUp.x + powerUp.width > 0

AdvancePowerUps(state, dtMs) ==
    LET moved == [i \in 1..Len(state.powerUps) |->
                    [state.powerUps[i] EXCEPT
                       !.x = @ - state.powerUps[i].speed * dtMs]]
    IN  [state EXCEPT !.powerUps = SelectSeq(moved, PowerUpOnScreen)]

\* Variant of FirstTarget that picks the last live enemy the shot overlaps.
RECURSIVE LastTarget(_, _, _)
LastTarget(shot, enemies, j) ==
    IF j > Len(enemies) THEN 0
    ELSE LET later == LastTarget(shot, enemies, j + 1)
         IN  IF later # 0 THEN later
             ELSE IF enemies[j].hp > 0 /\ rectsIntersect(shot, enemies[j])
                  THEN j
                  ELSE 0

\* Variant of FirstTarget without the skip of enemies that have no
\* hit-points left.
RECURSIVE FirstTargetAnyHp(_, _, _)
FirstTargetAnyHp(shot, enemies, j) ==
    IF j > Len(enemies) THEN 0
    ELSE IF rectsIntersect(shot, enemies[j]) THEN j
    ELSE FirstTargetAnyHp(shot, enemies, j + 1)

\* Phase 8, shot-obstacle collision.
\* The inner loop: the index of the first enemy, from j on, that is still
\* alive and intersects the shot; 0 when the loop ends without a hit.
RECURSIVE FirstTarget(_, _, _)
FirstTarget(shot, enemies, j) ==
    IF j > Len(enemies) THEN 0
    ELSE IF enemies[j].hp <= 0 THEN FirstTarget(shot, enemies, j + 1)
    ELSE IF rectsIntersect(shot, enemies[j]) THEN j
    ELSE FirstTarget(shot, enemies, j + 1)

\* Variant of CollideFrom that keeps destroyed in the order of the enemies
\* collection instead of the order of the shots.
RECURSIVE CollideFromByIndex(_, _, _)
CollideFromByIndex(shots, i, acc) ==
    IF i > Len(shots) THEN acc
    ELSE LET j == FirstTarget(shots[i], acc.enemies, 1)
         IN  IF j = 0
             THEN CollideFromByIndex(shots, i + 1,
                      [acc EXCEPT !.survivors = Append(@, shots[i])])
             ELSE LET hp1 == acc.enemies[j].hp - 1
                      lower == Cardinality({k \in 1..Len(acc.destroyed) :
                                              acc.destroyed[k] < j})
                      sorted == SubSeq(acc.destroyed, 1, lower) \o <<j>>
                                  \o SubSeq(acc.destroyed, lower + 1,
                                            Len(acc.destroyed))
                  IN  CollideFromByIndex(shots, i + 1,
                        [acc EXCEPT
                           !.enemies[j].hp = hp1,
                           !.hitCount = @ + 1,
                           !.destroyed = IF hp1 <= 0 THEN sorted ELSE @])

\* The outer loop over the shots.  acc: survivors, enemies (with their hp),
\* destroyed (indices into enemies, in the order destroyedEnemies.push ran)
\* and hitCount.
RECURSIVE CollideFrom(_, _, _)
CollideFrom(shots, i, acc) ==
    IF i > Len(shots) THEN acc
    ELSE LET j == FirstTarget(shots[i], acc.enemies, 1)
         IN  IF j = 0
             THEN CollideFrom(shots, i + 1,
                      [acc EXCEPT !.survivors = Append(@, shots[i])])
             ELSE LET hp1 == acc.enemies[j].hp - 1
                  IN  CollideFrom(shots, i + 1,
                        [acc EXCEPT
                           !.enemies[j].hp = hp1,
                           !.hitCount = @ + 1,
                           !.destroyed = IF hp1 <= 0 THEN Append(@, j) ELSE @])

CollideShots(state) ==
    CollideFrom(state.shots, 1,
                [survivors |-> <<>>, enemies |-> state.enemies,
                 destroyed |-> <<>>, hitCount |-> 0])

\* Variant of Alive that keeps an enemy with no hit-points left.
AliveOrSpent(enemy) == enemy.hp >= 0

Alive(enemy) == enemy.hp > 0

\* state.shots = survivors; state.enemies = state.enemies.filter(hp > 0)
AfterCollision(state, hit) ==
    [state EXCEPT !.shots = hit.survivors,
                  !.enemies = SelectSeq(hit.enemies, Alive)]

\* Variant of ResolveOne in which a splitter leaves a single shard.
ResolveOneShard(a, state, nowMs, enemy, d) ==
    LET combo1 == IF nowMs <= state.comboExpiresAt THEN state.combo + 1 ELSE 1
        enemies1 == IF enemy.kind = "splitter"
                    THEN Append(state.enemies,
                                createShard(a, enemy, 0 - SHARD_OFFSET))
                    ELSE state.enemies
    IN  [state EXCEPT !.score = @ + 1, !.combo = combo1,
                      !.comboExpiresAt = nowMs + COMBO_WINDOW_MS,
                      !.enemies = enemies1]

\* Variant of ResolveOne that drops whatever the number of power-ups.
ResolveOneUnlimited(a, state, nowMs, enemy, d) ==
    LET combo1 == IF nowMs <= state.comboExpiresAt THEN state.combo + 1 ELSE 1
        comboTier == Min(3, combo1 \div 4)
        dropChance == POWERUP_DROP_BASE + comboTier * POWERUP_DROP_COMBO_BONUS
        powerUps1 == IF d.drop < dropChance
                     THEN Append(state.powerUps,
                                 createPowerUp(pickPowerUpKind(d.kind),
                                               enemy.x + enemy.width \div 2,
                                               enemy.y + enemy.height \div 2,
                                               d.speed))
                     ELSE state.powerUps
        enemies1 == IF enemy.kind = "splitter"
                    THEN state.enemies
                           \o << createShard(a, enemy, 0 - SHARD_OFFSET),
                                 createShard(a, enemy, SHARD_OFFSET) >>
                    ELSE state.enemies
    IN  [state EXCEPT !.score = @ + 1, !.combo = combo1,
                      !.comboExpiresAt = nowMs + COMBO_WINDOW_MS,
                      !.powerUps = powerUps1, !.enemies = enemies1]

\* Phase 9, destruction resolution, for one destroyed enemy.
\* d: the draws of this iteration (drop roll, power-up kind, power-up speed).
ResolveOne(a, state, nowMs, enemy, d) ==
    LET combo1 == IF nowMs <= state.comboExpiresAt THEN state.combo + 1 ELSE 1
        comboTier == Min(3, combo1 \div 4)
        dropChance == POWERUP_DROP_BASE + comboTier * POWERUP_DROP_COMBO_BONUS
        drop == Len(state.powerUps) < POWERUP_LIMIT /\ d.drop < dropChance
        powerUps1 == IF drop
                     THEN Append(state.powerUps,
                                 createPowerUp(pickPowerUpKind(d.kind),
                                               enemy.x + enemy.width \div 2,
                                               enemy.y + enemy.height \div 2,
                                               d.speed))
                     ELSE state.powerUps
        enemies1 == IF enemy.kind = "splitter"
                    THEN state.enemies
                           \o << createShard(a, enemy, 0 - SHARD_OFFSET),
                                 createShard(a, enemy, SHARD_OFFSET) >>
                    ELSE state.enemies
    IN  [state EXCEPT !.score = @ + 1, !.combo = combo1,
                      !.comboExpiresAt = nowMs + COMBO_WINDOW_MS,
                      !.powerUps = powerUps1, !.enemies = enemies1]

RECURSIVE ResolveFrom(_, _, _, _, _, _)
ResolveFrom(a, state, nowMs, destroyedEnemies, draws, k) ==
    IF k > Len(destroyedEnemies) THEN state
    ELSE ResolveFrom(a,
                     ResolveOne(a, state, nowMs, destroyedEnemies[k], draws[k]),
                     nowMs, destroyedEnemies, draws, k + 1)

ResolveDestroyed(a, state, nowMs, destroyedEnemies, draws) ==
    ResolveFrom(a, state, nowMs, destroyedEnemies, draws, 1)

\* Variant of UpgradeShots that still upgrades at the cap.
RECURSIVE UpgradeShotsPastCap(_)
UpgradeShotsPastCap(state) ==
    IF state.score >= state.nextShotUpgrade
       /\ state.player.maxShots <= MAX_SHOTS_CAP
    THEN UpgradeShotsPastCap([state EXCEPT !.player.maxShots = @ + 1,
                                           !.nextShotUpgrade = @ + UPGRADE_STEP])
    ELSE state

\* Phase 10, ammo upgrade (the while loop).
RECURSIVE UpgradeShots(_)
UpgradeShots(state) ==
    IF state.score >= state.nextShotUpgrade
       /\ state.player.maxShots < MAX_SHOTS_CAP
    THEN UpgradeShots([state EXCEPT !.player.maxShots = @ + 1,
                                    !.nextShotUpgrade = @ + UPGRADE_STEP])
    ELSE state

\* Variant of FirstContact that picks the last enemy the player overlaps.
RECURSIVE LastContact(_, _, _)
LastContact(player, enemies, j) ==
    IF j > Len(enemies) THEN 0
    ELSE LET later == LastContact(player, enemies, j + 1)
         IN  IF later # 0 THEN later
             ELSE IF rectsIntersect(player, enemies[j]) THEN j ELSE 0

\* Phase 11, player-obstacle collision.
RECURSIVE FirstContact(_, _, _)
FirstContact(player, enemies, j) ==
    IF j > Len(enemies) THEN 0
    ELSE IF rectsIntersect(player, enemies[j]) THEN j
    ELSE FirstContact(player, enemies, j + 1)

\* Variant of ContactIndex that ignores the invulnerability window.
ContactIndexAlways(state, nowMs) ==
    FirstContact(state.player, state.enemies, 1)

\* The index of the enemy the player hits in this step, 0 for none.
ContactIndex(state, nowMs) ==
    IF nowMs >= state.player.invulnerableUntil
    THEN FirstContact(state.player, state.enemies, 1)
    ELSE 0

RemoveAt(seq, j) == SubSeq(seq, 1, j - 1) \o SubSeq(seq, j + 1, Len(seq))

\* Variant of PlayerContact in which a shield charge does not spare the life.
PlayerContactThroughShield(state, nowMs) ==
    LET j == ContactIndex(state, nowMs)
        hurt == IF state.player.shield > 0
                THEN [state EXCEPT !.player.shield = @ - 1, !.lives = @ - 1]
                ELSE [state EXCEPT !.lives = @ - 1]
    IN  IF j = 0 THEN state
        ELSE [hurt EXCEPT !.player.invulnerableUntil = nowMs + INVULNERABLE_MS,
                          !.combo = 0, !.comboExpiresAt = 0,
                          !.enemies = RemoveAt(@, j)]

\* Variant of PlayerContact that scores the enemy the player ran into.
PlayerContactScores(state, nowMs) ==
    LET j == ContactIndex(state, nowMs)
        hurt == IF state.player.shield > 0
                THEN [state EXCEPT !.player.shield = @ - 1]
                ELSE [state EXCEPT !.lives = @ - 1]
    IN  IF j = 0 THEN state
        ELSE [hurt EXCEPT !.player.invulnerableUntil = nowMs + INVULNERABLE_MS,
                          !.combo = 0, !.comboExpiresAt = 0,
                          !.score = @ + 1,
                          !.enemies = RemoveAt(@, j)]

PlayerContact(state, nowMs) ==
    LET j == ContactIndex(state, nowMs)
        hurt == IF state.player.shield > 0
                THEN [state EXCEPT !.player.shield = @ - 1]
                ELSE [state EXCEPT !.lives = @ - 1]
    IN  IF j = 0 THEN state
        ELSE [hurt EXCEPT !.player.invulnerableUntil = nowMs + INVULNERABLE_MS,
                          !.combo = 0, !.comboExpiresAt = 0,
                          !.enemies = RemoveAt(@, j)]

\* Variant of ApplyPowerUp that counts every duration from now.
ApplyPowerUpFromNow(state, nowMs, kind) ==
    CASE kind = "boost" ->
           [state EXCEPT !.boostUntil = nowMs + BOOST_DURATION_MS]
      [] kind = "burst" ->
           [state EXCEPT !.burstUntil = nowMs + BURST_DURATION_MS]
      [] kind = "slow" ->
           [state EXCEPT !.slowUntil = nowMs + SLOW_DURATION_MS]
      [] kind = "shield" ->
           [state EXCEPT !.player.shield = Min(SHIELD_CAP, @ + 1)]
      [] OTHER -> state

\* Phase 12, player-power-up collision.
ApplyPowerUp(state, nowMs, kind) ==
    CASE kind = "boost" ->
           [state EXCEPT !.boostUntil = Max(@, nowMs) + BOOST_DURATION_MS]
      [] kind = "burst" ->
           [state EXCEPT !.burstUntil = Max(@, nowMs) + BURST_DURATION_MS]
      [] kind = "slow" ->
           [state EXCEPT !.slowUntil = Max(@, nowMs) + SLOW_DURATION_MS]
      [] kind = "shield" ->
           [state EXCEPT !.player.shield = Min(SHIELD_CAP, @ + 1)]
      [] OTHER -> state

RECURSIVE PickUpFrom(_, _, _, _, _)
PickUpFrom(state, nowMs, powerUps, i, remaining) ==
    IF i > Len(powerUps) THEN [state EXCEPT !.powerUps = remaining]
    ELSE IF rectsIntersect(state.player, powerUps[i])
         THEN PickUpFrom(ApplyPowerUp(state, nowMs, powerUps[i].kind), nowMs,
                         powerUps, i + 1, remaining)
         ELSE PickUpFrom(state, nowMs, powerUps, i + 1,
                         Append(remaining, powerUps[i]))

PickUps(state, nowMs) == PickUpFrom(state, nowMs, state.powerUps, 1, <<>>)

\* Variant of ComboExpiry that resets the combo only once the expiry
\* timestamp is a whole window behind.
ComboExpiryLate(state, nowMs) ==
    IF state.combo > 0 /\ nowMs > state.comboExpiresAt + COMBO_WINDOW_MS
    THEN [state EXCEPT !.combo = 0]
    ELSE state

\* Phase 13, combo expiry.
ComboExpiry(state, nowMs) ==
    IF state.combo > 0 /\ nowMs > state.comboExpiresAt
    THEN [state EXCEPT !.combo = 0]
    ELSE state

\* The enemies pushed to destroyedEnemies, in push order.
DestroyedEnemies(hit) ==
    [k \in 1..Len(hit.destroyed) |-> hit.enemies[hit.destroyed[k]]]

\* The sounds one updateGame call asks playSfx for, in order ("gameOver" is
\* asked for by the terminal check).
StepSounds(shotsBefore, shotsAfterFire, hitCount, pickedUp, lives) ==
    (IF shotsAfterFire > shotsBefore THEN <<"shot">> ELSE <<>>)
    \o (IF hitCount > 0 THEN <<"hit">> ELSE <<>>)
    \o [i \in 1..pickedUp |-> "hit"]
    \o (IF lives <= 0 THEN <<"gameOver">> ELSE <<>>)

\* The locals before any updateGame call of the session.
NoStep ==
    [valid |-> FALSE, nowMs |-> 0, dt |-> 0, burstActive |-> FALSE,
     playerMoved |-> [x |-> 0, y |-> 0, width |-> 0, height |-> 0,
                      speed |-> 0, maxShots |-> 0, lastShotMs |-> 0,
                      invulnerableUntil |-> 0, shield |-> 0],
     shotsBefore |-> 0, shotsAfterFire |-> 0, spawned |-> 0, escaped |-> 0,
     livesKept |-> 0, comboKept |-> 0, shotsAtCollision |-> <<>>,
     enemiesAtCollision |-> <<>>, hpAfterCollision |-> <<>>, survivors |-> 0,
     hitCount |-> 0, destroyed |-> <<>>, enemiesFiltered |-> <<>>,
     enemiesResolved |-> <<>>, contact |-> 0, shieldAtContact |-> 0,
     powerUpsAtCollision |-> <<>>, powerUpsResolved |-> <<>>,
     livesAtContact |-> 0, livesAfterContact |-> 0,
     enemiesAfterContact |-> <<>>, lastShotBefore |-> 0,
     lastSpawnBefore |-> 0,
     shieldAfterContact |-> 0, invulnerableAfterContact |-> 0,
     pickedUp |-> 0, sounds |-> <<>>]

---------------------------------------------------------------------------
(* Bounds of the model and the inputs the environment draws.               *)

\* Frames requested in one run.
MaxFrames == 3
\* The control flags change only while the frame handle is at most this.
MaxKeyFrames == 1

\* performance.now() when the component is constructed.
StartClock == 10000

\* Milliseconds between two animation frames: a short frame, a frame at the
\* cap of the elapsed time, and a long pause (a hidden tab).
Gaps == {50, 1200}

\* Sprite sizes the asset collaborator may supply, in pixels: the usual set,
\* one whose player sprite just fits around the start position, and one
\* with an oversized player sprite.
Sprite(w, h) == [width |-> Px(w), height |-> Px(h)]

UsualAssets ==
    [player |-> Sprite(64, 48), shot |-> Sprite(16, 8), enemy |-> Sprite(40, 40)]

WideAssets ==
    [player |-> Sprite(200, 48), shot |-> Sprite(16, 8), enemy |-> Sprite(40, 40)]

SnugAssets ==
    [player |-> Sprite(160, 560), shot |-> Sprite(16, 8), enemy |-> Sprite(40, 40)]

AssetChoices == {UsualAssets, SnugAssets, WideAssets}

\* The draws of one createEnemy call.
SpawnDraws ==
    [kind : {60, 95}, speed : {50}, amplitude : {50}, frequency : {50},
     phase : {0}, spawnY : {50}]

NoSpawnDraw ==
    [kind |-> 0, speed |-> 0, amplitude |-> 0, frequency |-> 0, phase |-> 0,
     spawnY |-> 0]

\* The draws of one iteration of destruction resolution: no drop, or a drop
\* of each kind.
DropDraws ==
    {[drop |-> 50, kind |-> 0, speed |-> 50]}
    \cup [drop : {5}, kind : {40, 90}, speed : {50}]

ControlKeys == {"up", "down", "left", "right", "shoot"}

---------------------------------------------------------------------------
(* Operations.                                                             *)

\* Variant of ResetGame whose asset guard comes after the input snapshot,
\* the stats and lastScore have been replaced.
ResetGameLateGuard(a, nowMs) ==
    IF a = <<>>
    THEN /\ controls' = NoControls
         /\ stats' = InitialStats
         /\ lastScore' = 0
         /\ UNCHANGED <<game, last>>
    ELSE /\ game' = <<NewState(a[1], nowMs)>>
         /\ controls' = NoControls
         /\ stats' = InitialStats
         /\ lastScore' = 0
         /\ last' = NoStep

\* Variant of ResetGame that leaves the control flags as they are.
ResetGameKeepingControls(a, nowMs) ==
    IF a = <<>>
    THEN UNCHANGED <<game, controls, stats, lastScore, last>>
    ELSE /\ game' = <<NewState(a[1], nowMs)>>
         /\ controls' = controls
         /\ stats' = InitialStats
         /\ lastScore' = 0
         /\ last' = NoStep

\* resetGame(nowMs), with a the value of assetsRef.current when it runs.
ResetGame(a, nowMs) ==
    IF a = <<>>
    THEN UNCHANGED <<game, controls, stats, lastScore, last>>
    ELSE /\ game' = <<NewState(a[1], nowMs)>>
         /\ controls' = NoControls
         /\ stats' = InitialStats
         /\ lastScore' = 0
         /\ last' = NoStep

\* loadAssets resolving: the assets are stored, the state is reset, and the
\* effects that depend on assetsReady install the key handlers and request
\* the first frame.
LoadAssets ==
    /\ assets = <<>>
    /\ ~loadingError
    /\ \E a \in AssetChoices :
          /\ assets' = <<a>>
          /\ ResetGame(<<a>>, clock)
    /\ assetsReady' = TRUE
    /\ lastTime' = clock
    /\ raf' = raf + 1
    /\ UNCHANGED <<loadingError, mode, clock, audio, calls>>

\* loadAssets rejecting.
LoadFails ==
    /\ assets = <<>>
    /\ ~loadingError
    /\ loadingError' = TRUE
    /\ UNCHANGED <<assets, assetsReady, mode, game, controls, stats,
                   lastScore, clock, lastTime, raf, audio, last, calls>>

\* Variant of StartGame that starts the session on the state it finds.
StartGameWithoutReset ==
    IF ~assetsReady
    THEN UNCHANGED programVars
    ELSE /\ audio' = [unlocked |-> TRUE, music |-> assets # <<>>]
         /\ mode' = "playing"
         /\ UNCHANGED <<assets, assetsReady, loadingError, clock, lastTime, raf,
                        game, controls, stats, lastScore, last>>

\* startGame
StartGame ==
    IF ~assetsReady
    THEN UNCHANGED programVars
    ELSE /\ ResetGame(assets, clock)
         /\ audio' = [unlocked |-> TRUE, music |-> assets # <<>>]
         /\ mode' = "playing"
         /\ UNCHANGED <<assets, assetsReady, loadingError, clock, lastTime, raf>>

\* exitGame
ExitGame ==
    /\ audio' = [audio EXCEPT !.music = FALSE]
    /\ mode' = "ready"
    /\ ResetGame(assets, clock)
    /\ UNCHANGED <<assets, assetsReady, loadingError, clock, lastTime, raf>>

\* The overlay's start button (rendered while not playing).
ClickStart ==
    /\ assetsReady /\ ~loadingError /\ mode # "playing"
    /\ StartGame
    /\ UNCHANGED calls

\* The overlay's exit button (rendered on game over).
ClickExit ==
    /\ assetsReady /\ ~loadingError /\ mode = "gameover"
    /\ ExitGame
    /\ UNCHANGED calls

\* handleKey, case "Enter", key down.
KeyEnter ==
    /\ assetsReady
    /\ IF mode # "playing" THEN StartGame ELSE UNCHANGED programVars
    /\ UNCHANGED calls

\* handleKey, case "Escape", key down.
KeyEscape ==
    /\ assetsReady
    /\ ExitGame
    /\ UNCHANGED calls

\* handleKey for a control key, key down or up.
KeyControl ==
    /\ assetsReady
    /\ raf <= MaxKeyFrames
    /\ \E key \in ControlKeys, isDown \in BOOLEAN :
          controls' = [controls EXCEPT ![key] = isDown]
    /\ UNCHANGED <<assets, assetsReady, loadingError, mode, game, stats,
                   lastScore, clock, lastTime, raf, audio, last, calls>>

\* bindControl: the touch buttons, rendered from the start.
PointerControl ==
    /\ raf <= MaxKeyFrames
    /\ \E key \in ControlKeys, isDown \in BOOLEAN :
          controls' = [controls EXCEPT ![key] = isDown]
    /\ UNCHANGED <<assets, assetsReady, loadingError, mode, game, stats,
                   lastScore, clock, lastTime, raf, audio, last, calls>>

\* Variant of TerminalCheck that ends the session on the last life.
TerminalCheckEarly(final) ==
    IF final.lives <= 1
    THEN /\ audio' = [audio EXCEPT !.music = FALSE]
         /\ lastScore' = final.score
         /\ mode' = "gameover"
    ELSE UNCHANGED <<audio, lastScore, mode>>

\* Variant of TerminalCheck that lets a session with no lives run on.
TerminalCheckLate(final) ==
    IF final.lives < 0
    THEN /\ audio' = [audio EXCEPT !.music = FALSE]
         /\ lastScore' = final.score
         /\ mode' = "gameover"
    ELSE UNCHANGED <<audio, lastScore, mode>>

\* Variant of TerminalCheck that stops the music and records the score but
\* leaves the mode alone.
TerminalCheckKeepsPlaying(final) ==
    IF final.lives <= 0
    THEN /\ audio' = [audio EXCEPT !.music = FALSE]
         /\ lastScore' = final.score
         /\ UNCHANGED mode
    ELSE UNCHANGED <<audio, lastScore, mode>>

\* Phase 14, terminal check: stopMusic, setLastScore, setModeSafe.
TerminalCheck(final) ==
    IF final.lives <= 0
    THEN /\ audio' = [audio EXCEPT !.music = FALSE]
         /\ lastScore' = final.score
         /\ mode' = "gameover"
    ELSE UNCHANGED <<audio, lastScore, mode>>

\* updateGame(state, dt, nowMs): the phases in order, the terminal check and
\* syncStats.  "\E v \in {e}" names the value of e, as a local of the source
\* does.  d: the draws of createEnemy; draws: those of destruction
\* resolution, one record per destroyed enemy.
UpdateGame(state, dtMs, nowMs) ==
    \E d \in (IF SpawnDue(state, nowMs) THEN SpawnDraws ELSE {NoSpawnDraw}) :
    \E moved \in {MovePlayer(state, dtMs, nowMs, controls)} :
    \E fired \in {FireShots(assets[1], moved, nowMs, controls)} :
    \E flown \in {AdvanceShots(fired, dtMs)} :
    \E spawned \in {SpawnEnemy(assets[1], flown, nowMs, d)} :
    \E advanced \in {AdvanceEnemies(spawned, dtMs, nowMs)} :
    \E kept \in {EscapeAccounting(advanced)} :
    \E drifted \in {AdvancePowerUps(kept, dtMs)} :
    \E hit \in {CollideShots(drifted)} :
    \E filtered \in {AfterCollision(drifted, hit)} :
    \E draws \in [1..Len(hit.destroyed) -> DropDraws] :
    \E resolved \in {ResolveDestroyed(assets[1], filtered, nowMs,
                                      DestroyedEnemies(hit), draws)} :
    \E upgraded \in {UpgradeShots(resolved)} :
    \E touched \in {PlayerContact(upgraded, nowMs)} :
    \E picked \in {PickUps(touched, nowMs)} :
    \E final \in {ComboExpiry(picked, nowMs)} :
       /\ game' = <<final>>
       /\ last' =
            [valid |-> TRUE, nowMs |-> nowMs, dt |-> dtMs,
             burstActive |-> nowMs < state.burstUntil,
             playerMoved |-> moved.player,
             shotsBefore |-> Len(state.shots),
             shotsAfterFire |-> Len(fired.shots),
             spawned |-> Len(spawned.enemies) - Len(flown.enemies),
             escaped |-> EscapedCount(advanced),
             livesKept |-> kept.lives,
             comboKept |-> kept.combo,
             shotsAtCollision |-> drifted.shots,
             enemiesAtCollision |-> drifted.enemies,
             hpAfterCollision |->
                 [j \in 1..Len(hit.enemies) |-> hit.enemies[j].hp],
             survivors |-> Len(hit.survivors),
             hitCount |-> hit.hitCount,
             destroyed |-> hit.destroyed,
             enemiesFiltered |-> filtered.enemies,
             enemiesResolved |-> resolved.enemies,
             contact |-> ContactIndex(upgraded, nowMs),
             shieldAtContact |-> upgraded.player.shield,
             powerUpsAtCollision |-> drifted.powerUps,
             powerUpsResolved |-> resolved.powerUps,
             livesAtContact |-> upgraded.lives,
             livesAfterContact |-> touched.lives,
             enemiesAfterContact |-> touched.enemies,
             lastShotBefore |-> state.player.lastShotMs,
             lastSpawnBefore |-> state.lastSpawnMs,
             shieldAfterContact |-> touched.player.shield,
             invulnerableAfterContact |-> touched.player.invulnerableUntil,
             pickedUp |-> Len(touched.powerUps) - Len(picked.powerUps),
             sounds |->
                 IF audio.unlocked
                 THEN StepSounds(Len(state.shots), Len(fired.shots),
                                 hit.hitCount,
                                 Len(touched.powerUps) - Len(picked.powerUps),
                                 final.lives)
                 ELSE <<>>]
       /\ TerminalCheck(final)
       /\ stats' = ProjectStats(final, nowMs)

\* Variant of Frame that runs the step whatever the mode.
FrameInAnyMode ==
    /\ assetsReady
    /\ raf <= MaxFrames
    /\ \E gap \in Gaps :
          LET timestamp == clock + gap
              delta == Min(timestamp - lastTime, MAX_DT_MS)
          IN  /\ clock' = timestamp
              /\ lastTime' = timestamp
              /\ UpdateGame(game[1], delta, timestamp)
    /\ raf' = raf + 1
    /\ UNCHANGED <<assets, assetsReady, loadingError, controls, calls>>

\* loop(timestamp): one animation frame.
Frame ==
    /\ assetsReady
    /\ raf <= MaxFrames
    /\ \E gap \in Gaps :
          LET timestamp == clock + gap
              delta == Min(timestamp - lastTime, MAX_DT_MS)
          IN  /\ clock' = timestamp
              /\ lastTime' = timestamp
              /\ IF mode = "playing"
                 THEN UpdateGame(game[1], delta, timestamp)
                 ELSE UNCHANGED <<game, last, audio, lastScore, mode, stats>>
    /\ raf' = raf + 1
    /\ UNCHANGED <<assets, assetsReady, loadingError, controls, calls>>

---------------------------------------------------------------------------
(* The state after construction.                                           *)

Init ==
    /\ assets = <<>>
    /\ assetsReady = FALSE
    /\ loadingError = FALSE
    /\ mode = "ready"
    /\ game = <<>>
    /\ controls = NoControls
    /\ stats = InitialStats
    /\ lastScore = 0
    /\ clock = StartClock
    /\ lastTime = 0
    /\ raf = 0
    /\ audio = [unlocked |-> FALSE, music |-> FALSE]
    /\ last = NoStep
    /\ calls = 0

---------------------------------------------------------------------------
(* Sessions in progress.  A run may also begin in the middle of a playing  *)
(* session: a state the program reaches after many frames, written down    *)
(* directly.  Every entity of such a state comes from the program's own     *)
(* factory for the session's score and lies where its motion takes it; the  *)
(* ammo capacity is the one the upgrade loop gives the score.               *)

ScoreSamples == {0, 14, 20, 74}

\* lives and shield charges
HealthSamples == {<<3, 0>>, <<1, 0>>, <<1, 1>>}

\* combo and its expiry
ComboSamples(score) ==
    IF score = 0 THEN {<<0, 0>>} ELSE {<<0, 0>>, <<3, StartClock + 1000>>}

\* burstUntil: expired, or expiring in a little more than a second
BurstSamples == {0, StartClock + 1300}

\* An enemy createEnemy made at this score (kind by the roll), moved to x.
SceneEnemy(a, score, roll, x) ==
    [createEnemy(a, score,
                 [kind |-> roll, speed |-> 50, amplitude |-> 50,
                  frequency |-> 50, phase |-> 0, spawnY |-> 50])
       EXCEPT !.x = x]

\* Where an enemy of the scene is: ahead of the player in the line of fire
\* (two places that overlap), touching the player, or with only one pixel
\* of its box still inside the left edge.
Ahead(a, score, roll) == SceneEnemy(a, score, roll, Px(150))
AheadToo(a, score, roll) == SceneEnemy(a, score, roll, Px(155))
Touching(a, score, roll) == SceneEnemy(a, score, roll, Px(100))
Leaving(a, score, roll) ==
    LET e == SceneEnemy(a, score, roll, 0) IN [e EXCEPT !.x = Px(1) - e.width]

\* The kinds of a scene: a drifter, or the rarest kind of the score band.
SceneRolls == {10, 95}

EnemyLayouts(a, score) ==
    {<<>>}
    \cup {<<Ahead(a, score, r)>> : r \in SceneRolls}
    \cup {<<Ahead(a, score, r), AheadToo(a, score, 10)>> : r \in SceneRolls}
    \cup {<<Touching(a, score, r)>> : r \in SceneRolls}
    \cup {<<Touching(a, score, 10), Ahead(a, score, r)>> : r \in SceneRolls}
    \cup {<<Leaving(a, score, r)>> : r \in SceneRolls}
    \cup {<<Leaving(a, score, 10), Leaving(a, score, 10)>>}
    \cup {<<Leaving(a, score, 10), Ahead(a, score, r)>> : r \in SceneRolls}
    \cup {<<Leaving(a, score, 10), Touching(a, score, 10)>>}
    \cup {<<Leaving(a, score, 10), Touching(a, score, 10),
             Ahead(a, score, 10)>>}

\* An enemy in the line of fire of a player at the top edge, spawned with the
\* lowest spawnY draw.
AtTop(a, score, roll) ==
    [createEnemy(a, score,
                 [kind |-> roll, speed |-> 50, amplitude |-> 50,
                  frequency |-> 50, phase |-> 0, spawnY |-> 0])
       EXCEPT !.x = Px(150)]

\* A shot fired one frame ago from the start position.
ShotInFlight(a) ==
    LET shot == NewShot(a, NewPlayer(a), SinglePattern[1])
    IN  [shot EXCEPT !.x = @ + SHOT_SPEED * MAX_DT_MS]

ShotLayouts(a) == {<<>>, <<ShotInFlight(a)>>}

Scene(a, score, health, comboPair, burstUntil, enemies, shots) ==
    LET fresh == NewState(a, StartClock - 300)
        scored == UpgradeShots([fresh EXCEPT !.score = score])
    IN  [scored EXCEPT !.lives = health[1], !.player.shield = health[2],
                       !.combo = comboPair[1], !.comboExpiresAt = comboPair[2],
                       !.burstUntil = burstUntil,
                       !.player.lastShotMs = StartClock - 200,
                       !.enemies = enemies, !.shots = shots]

\* An enemy in the lane below the centre one (spawnY draw 64).
Below(a, score, roll, x) ==
    [createEnemy(a, score,
                 [kind |-> roll, speed |-> 50, amplitude |-> 50,
                  frequency |-> 50, phase |-> 0, spawnY |-> 64])
       EXCEPT !.x = x]

\* A player that fired from the start position, moved down for five frames
\* and fired again: the first shot is six frames out in the centre lane,
\* the second one frame out in the lane below.  The older enemy is in the
\* lower lane in front of the second shot, the younger one in the centre
\* lane in front of the first.
LaneScenes ==
    LET a == UsualAssets
        player == [NewPlayer(a) EXCEPT
                     !.y = @ + 5 * PLAYER_SPEED * MAX_DT_MS,
                     !.lastShotMs = StartClock]
        first == [NewShot(a, NewPlayer(a), SinglePattern[1]) EXCEPT
                     !.x = @ + 6 * SHOT_SPEED * MAX_DT_MS]
        second == [NewShot(a, player, SinglePattern[1]) EXCEPT
                     !.x = @ + SHOT_SPEED * MAX_DT_MS]
    IN  { [Scene(a, 20, <<3, 0>>, <<0, 0>>, 0,
                 <<Below(a, 20, r, Px(150)), SceneEnemy(a, 20, 95, Px(340))>>,
                 <<first, second>>)
             EXCEPT !.player.y = player.y,
                    !.player.lastShotMs = player.lastShotMs] :
          r \in SceneRolls }

\* A second enemy touching the player.
TouchingToo(a, score, roll) == SceneEnemy(a, score, roll, Px(105))

\* Sessions with two enemies on the player at once, and a session half a
\* second after a contact with an enemy on the player and one leaving.
ContactScenes ==
    LET a == UsualAssets
    IN  { Scene(a, 14, health, <<3, StartClock + 1000>>, 0,
                <<Touching(a, 14, r), TouchingToo(a, 14, 10)>>, <<>>) :
            health \in {<<3, 0>>, <<1, 1>>}, r \in SceneRolls }
        \cup { [Scene(a, 14, <<2, 0>>, <<0, 0>>, 0,
                      <<Leaving(a, 14, 10), Touching(a, 14, 10)>>, <<>>)
                  EXCEPT !.player.invulnerableUntil = StartClock + 500] }

\* Sessions whose latest shot left 100 or 50 ms ago, with and without a
\* burst running: the next frames fall on either side of both cooldowns.
CadenceScenes ==
    LET a == UsualAssets
    IN  { [Scene(a, 0, <<3, 0>>, <<0, 0>>, burstUntil, <<>>, <<>>)
             EXCEPT !.player.lastShotMs = StartClock - ago] :
            burstUntil \in BurstSamples, ago \in {50, 100} }

\* A power-up of a kind dropped on the player's centre, and one dropped far
\* from the player.
OnThePlayer(a, kind) ==
    LET player == NewPlayer(a)
    IN  createPowerUp(kind, player.x + player.width \div 2,
                      player.y + player.height \div 2, 50)

FarAway(kind) == createPowerUp(kind, Px(600), Px(100), 50)

\* Sessions with power-ups on the player: two of one kind around one out of
\* reach, and one of each other kind, with the shield empty or full and a
\* burst running or not.
PickupScenes ==
    LET a == UsualAssets
    IN  { [Scene(a, 0, <<3, 0>>, <<0, 0>>, burstUntil, <<>>, <<>>)
             EXCEPT !.powerUps = <<OnThePlayer(a, kind), FarAway("shield"),
                                   OnThePlayer(a, kind)>>] :
            burstUntil \in BurstSamples,
            kind \in {"boost", "burst", "slow", "shield"} }
        \cup { [Scene(a, 0, health, <<0, 0>>, burstUntil, <<>>, <<>>)
                  EXCEPT !.powerUps = <<OnThePlayer(a, "burst"),
                                        OnThePlayer(a, "slow"),
                                        OnThePlayer(a, "shield")>>] :
                 burstUntil \in BurstSamples,
                 health \in {<<3, 0>>, <<3, 2>>} }

\* Late sessions with an empty field: at score 94 the spawn interval is 380
\* ms, at score 100 it has reached its floor; the latest spawn was 250 or
\* 300 ms ago.
SpawnScenes ==
    LET a == UsualAssets
    IN  { [Scene(a, score, <<3, 0>>, <<0, 0>>, 0, <<>>, <<>>)
             EXCEPT !.lastSpawnMs = StartClock - ago] :
            score \in {94, 100}, ago \in {250, 300} }

\* Sessions that already hold power-ups, out of the player's reach: two of
\* them over the two lanes with a shot in each, and two or three of them
\* over one enemy in the line of fire.
CrowdedScenes ==
    LET a == UsualAssets
        two == <<FarAway("boost"), FarAway("slow")>>
    IN  { [scene EXCEPT !.powerUps = two] : scene \in LaneScenes }
        \cup { [Scene(a, 14, <<3, 0>>, <<0, 0>>, 0, <<Ahead(a, 14, 10)>>,
                      <<ShotInFlight(a)>>)
                  EXCEPT !.powerUps = held] :
                 held \in {two, Append(two, FarAway("shield"))} }

\* Sessions one kill short of the score at which armored obstacles and at
\* which splitters start to spawn, with an obstacle in the line of fire.
ThresholdScenes ==
    LET a == UsualAssets
    IN  { Scene(a, score, <<3, 0>>, <<0, 0>>, 0, <<Ahead(a, score, 95)>>,
                <<ShotInFlight(a)>>) : score \in {7, 17} }

\* A shot fired one frame ago by a player at the top edge.
ShotAtTop(a) ==
    LET shot == NewShot(a, [NewPlayer(a) EXCEPT !.y = 0], SinglePattern[1])
    IN  [shot EXCEPT !.x = @ + SHOT_SPEED * MAX_DT_MS]

\* Sessions whose player went to the top edge and fired at an enemy there.
EdgeScenes ==
    { [Scene(UsualAssets, 20, <<3, 0>>, <<0, 0>>, 0,
             <<AtTop(UsualAssets, 20, r)>>, <<ShotAtTop(UsualAssets)>>)
         EXCEPT !.player.y = 0] : r \in SceneRolls }

Scenes ==
    UNION { UNION { { Scene(UsualAssets, score, health, comboPair, burstUntil,
                            enemies, shots) :
                        health \in HealthSamples, burstUntil \in BurstSamples,
                        enemies \in EnemyLayouts(UsualAssets, score),
                        shots \in ShotLayouts(UsualAssets) } :
                    comboPair \in ComboSamples(score) } :
            score \in ScoreSamples }
    \cup EdgeScenes \cup LaneScenes \cup ContactScenes
    \cup CadenceScenes \cup PickupScenes \cup SpawnScenes
    \cup CrowdedScenes \cup ThresholdScenes

MidSession ==
    /\ assets = <<UsualAssets>>
    /\ assetsReady = TRUE
    /\ loadingError = FALSE
    /\ mode = "playing"
    /\ game \in {<<scene>> : scene \in Scenes}
    /\ controls \in {NoControls, [NoControls EXCEPT !.shoot = TRUE]}
    /\ stats = ProjectStats(game[1], StartClock)
    /\ lastScore = 0
    /\ clock = StartClock
    /\ lastTime = StartClock
    /\ raf = MaxKeyFrames + 1
    /\ audio = [unlocked |-> TRUE, music |-> TRUE]
    /\ last = NoStep
    /\ calls = 0

Next ==
    \/ LoadAssets
    \/ LoadFails
    \/ ClickStart
    \/ ClickExit
    \/ KeyEnter
    \/ KeyEscape
    \/ KeyControl
    \/ PointerControl
    \/ Frame

\* Runs from construction.
Spec == Init /\ [][Next]_vars

\* Runs from construction and runs that begin in a session in progress.
SessionSpec == (Init \/ MidSession) /\ [][Next]_vars

\* The component never calls startGame or resetGame before the assets are
\* there: the overlay buttons and the key handlers exist only once
\* assetsReady holds.  The asset guards of the two functions are exercised
\* by calling them directly.
MaxCalls == 2

\* startGame() called while assetsReady is false.
CallStartGame ==
    /\ ~assetsReady
    /\ calls < MaxCalls
    /\ StartGame
    /\ calls' = calls + 1

\* resetGame(performance.now()) called while assetsRef.current is null.
CallResetGame ==
    /\ assets = <<>>
    /\ calls < MaxCalls
    /\ ResetGame(assets, clock)
    /\ calls' = calls + 1
    /\ UNCHANGED <<assets, assetsReady, loadingError, mode, clock, lastTime,
                   raf, audio>>

GuardNext ==
    \/ Next
    \/ CallStartGame
    \/ CallResetGame

\* The runs of SessionSpec, with direct calls before the assets are loaded.
GuardSpec == (Init \/ MidSession) /\ [][GuardNext]_vars

---------------------------------------------------------------------------
(* Properties.                                                             *)

\* A transition in which updateGame ran: a frame of a playing session.
Stepped == raf' # raf /\ mode = "playing"

\* The effective max-shots of the latest step: base capacity plus the burst
\* bonus when the burst buff was active at the step's timestamp.
EffectiveMaxShots ==
    last.playerMoved.maxShots + (IF last.burstActive THEN 2 ELSE 0)

\* C1, as claimed: right after the firing phase of every step the number of
\* active shots is at most the effective max-shots of that step.
C1_ShotsWithinCapAsClaimed ==
    last.valid => last.shotsAfterFire <= EffectiveMaxShots

\* C1, amended: right after the firing phase the number of active shots is
\* at most the larger of the step's effective max-shots and the number of
\* shots already active when the step began; the firing phase itself never
\* takes the count above the effective max-shots.
C1_FiringNeverExceedsCap ==
    last.valid =>
        /\ last.shotsAfterFire >= last.shotsBefore
        /\ last.shotsAfterFire <= Max(EffectiveMaxShots, last.shotsBefore)

\* A burst volley cut short by the cap: fewer than three shots were emitted
\* and the count stands exactly at the effective max-shots.
C1_Witness ==
    /\ last.valid /\ last.burstActive
    /\ last.shotsAfterFire - last.shotsBefore \in {1, 2}
    /\ last.shotsAfterFire = EffectiveMaxShots

\* C2, as claimed: the mode changes only ready -> playing, playing ->
\* gameover, gameover -> ready and gameover -> playing.
C2_TransitionsAsClaimed ==
    [][mode' # mode =>
          <<mode, mode'>> \in {<<"ready", "playing">>, <<"playing", "gameover">>,
                               <<"gameover", "ready">>, <<"gameover", "playing">>}]_vars

\* C2, amended: the mode changes only ready -> playing (start action),
\* playing -> gameover (a step that ends with lives exhausted), gameover ->
\* ready (exit action), gameover -> playing (restart action) and playing ->
\* ready (the Escape key, which runs the exit action in any mode).
C2_ModeTransitions ==
    [][mode' # mode =>
          \/ /\ mode \in {"ready", "gameover"} /\ mode' = "playing"
             /\ raf' = raf /\ game'[1].lives = 3
          \/ /\ mode = "playing" /\ mode' = "gameover"
             /\ raf' # raf /\ game'[1].lives <= 0
          \/ /\ mode \in {"gameover", "playing"} /\ mode' = "ready"
             /\ raf' = raf /\ game'[1].lives = 3]_vars

\* The session ended by exhaustion of lives in a step.
C2_Witness == mode = "gameover" /\ last.valid /\ game[1].lives <= 0

\* C3, as claimed: a step in which k >= 1 obstacles escape ends with lives
\* exactly k lower than before the step and combo 0.
C3_EscapeAsClaimed ==
    [][Stepped /\ last'.escaped >= 1 =>
          /\ game'[1].lives = game[1].lives - last'.escaped
          /\ game'[1].combo = 0]_vars

\* C3, amended: when k >= 1 obstacles escape in a step, right after the
\* escape phase lives is exactly k lower than before the step and combo is
\* 0; at the end of the step lives is lower by k, and by one more if a
\* player-obstacle contact was resolved in the step with no shield charge,
\* and combo is 0 if a contact was resolved and otherwise the number of
\* obstacles destroyed by shots in the step.
C3_EscapeAccounting ==
    [][Stepped /\ last'.escaped >= 1 =>
          /\ last'.livesKept = game[1].lives - last'.escaped
          /\ last'.comboKept = 0
          /\ game'[1].lives =
                game[1].lives - last'.escaped
                  - (IF last'.contact # 0 /\ last'.shieldAtContact = 0
                     THEN 1 ELSE 0)
          /\ game'[1].combo =
                IF last'.contact # 0 THEN 0 ELSE Len(last'.destroyed)]_vars

\* Two obstacles escaped in one step of a session that had a combo running.
C3_Witness ==
    /\ last.valid /\ last.escaped = 2
    /\ last.comboKept = 0 /\ game[1].combo = 0 /\ game[1].score > 0

\* The obstacles whose hit-points the shots of the latest step brought to 0.
KilledByShots ==
    {j \in 1..Len(last.enemiesAtCollision) :
        last.enemiesAtCollision[j].hp > 0 /\ last.hpAfterCollision[j] <= 0}

\* C4: within a session the score never decreases; a step raises it by
\* exactly the number of obstacles whose hit-points shots brought to 0 in
\* that step (escapes and player contacts add nothing), and nothing but a
\* step or a reset changes it.
C4_ScoreCountsKills ==
    [][/\ Stepped => game'[1].score = game[1].score + Cardinality(KilledByShots')
       /\ (game # <<>> /\ clock' # clock) => game'[1].score >= game[1].score
       /\ (game # <<>> /\ ~Stepped /\ game'[1].score # game[1].score) =>
             (clock' = clock /\ game'[1].score = 0)]_vars

\* A step with a kill, an escape and an unshielded player contact at once.
C4_Witness ==
    /\ last.valid /\ Cardinality(KilledByShots) >= 1
    /\ last.escaped >= 1 /\ last.contact # 0

\* C5: a step that begins with lives > 0 and ends with lives <= 0 moves the
\* mode to gameover in that step, asks for the game-over sound in that step
\* and records lastScore = the score at the end of that step; and while the
\* mode stays gameover neither the score nor lastScore changes.
C5_GameOverInStep ==
    [][/\ (Stepped /\ game[1].lives > 0 /\ game'[1].lives <= 0) =>
             /\ mode' = "gameover"
             /\ last'.sounds # <<>>
             /\ last'.sounds[Len(last'.sounds)] = "gameOver"
             /\ lastScore' = game'[1].score
       /\ (mode = "gameover" /\ mode' = "gameover") =>
             /\ game'[1].score = game[1].score
             /\ lastScore' = lastScore
             /\ lastScore = game[1].score]_vars

\* The last life was lost in a step that also destroyed an obstacle, and a
\* frame has passed since.
C5_Witness ==
    /\ mode = "gameover" /\ last.valid /\ Len(last.destroyed) >= 1
    /\ lastScore = game[1].score /\ lastScore > 0
    /\ clock > last.nowMs

\* Whether a box lies inside the viewport.
InViewport(box) ==
    /\ 0 <= box.x /\ box.x <= Px(800) - box.width
    /\ 0 <= box.y /\ box.y <= Px(600) - box.height

OverlappedByShot ==
    {j \in 1..Len(last.enemiesAtCollision) :
        /\ last.enemiesAtCollision[j].hp > 0
        /\ rectsIntersect(last.shotsAtCollision[1], last.enemiesAtCollision[j])}

\* C7: when a single shot overlaps two or more live obstacles in the
\* collision phase, the one with the lowest index loses one hit-point and
\* the hit-points of every other obstacle are unchanged.
C7_FirstObstacleTakesHit ==
    (last.valid /\ Len(last.shotsAtCollision) = 1
                /\ Cardinality(OverlappedByShot) >= 2) =>
        \A j \in 1..Len(last.enemiesAtCollision) :
            last.hpAfterCollision[j] =
                IF j \in OverlappedByShot /\ \A i \in OverlappedByShot : j <= i
                THEN last.enemiesAtCollision[j].hp - 1
                ELSE last.enemiesAtCollision[j].hp

\* One shot over two live obstacles, the first of which survives the hit.
C7_Witness ==
    /\ last.valid /\ Len(last.shotsAtCollision) = 1
    /\ OverlappedByShot = {1, 2}
    /\ last.hpAfterCollision = <<1, 1>>

\* C8: a reset at timestamp t, whatever the session did before, leaves
\* score 0, lives 3, combo 0, combo expiry 0, all three buff expiries 0,
\* next upgrade threshold 15, max-shots 2, shield 0, lastShot 0,
\* invulnerable-until 0, no shots, obstacles or power-ups, the player at
\* its start position, last-spawn = t and all five input flags false.  (A
\* reset is the only change of the state that leaves the clock alone.)
C8_ResetYieldsFreshState ==
    [][(clock' = clock /\ (game' # game \/ mode' # mode)) =>
          /\ game' = << [score |-> 0, lives |-> 3, lastSpawnMs |-> clock,
                         nextShotUpgrade |-> 15, combo |-> 0,
                         comboExpiresAt |-> 0, boostUntil |-> 0,
                         burstUntil |-> 0, slowUntil |-> 0,
                         player |->
                           [x |-> 80000 - assets'[1].player.width \div 2,
                            y |-> 300000 - assets'[1].player.height \div 2,
                            width |-> assets'[1].player.width,
                            height |-> assets'[1].player.height,
                            speed |-> 320, maxShots |-> 2, lastShotMs |-> 0,
                            invulnerableUntil |-> 0, shield |-> 0],
                         shots |-> <<>>, enemies |-> <<>>,
                         powerUps |-> <<>>] >>
          /\ \A key \in ControlKeys : ~controls'[key]]_vars

\* A session that ran frames was left by the exit action.
C8_Witness ==
    /\ mode = "ready" /\ audio.unlocked /\ clock > StartClock
    /\ game[1].score = 0 /\ game[1].lastSpawnMs = clock
    /\ game[1].player.maxShots = 2

\* C9: after every step max-shots = min(6, 2 + floor(score / 15)) and the
\* next threshold = 15 * (max-shots - 1); so max-shots never exceeds 6 and
\* score 14 -> 15 with max-shots 2 gives max-shots 3 and threshold 30.
C9_AmmoUpgrade ==
    game # <<>> =>
        /\ game[1].player.maxShots = Min(6, 2 + game[1].score \div 15)
        /\ game[1].nextShotUpgrade = 15 * (game[1].player.maxShots - 1)

\* The step that took the score from 14 to 15.
C9_Witness ==
    /\ last.valid /\ Len(last.destroyed) = 1
    /\ last.playerMoved.maxShots = 2
    /\ game[1].score = 15 /\ game[1].player.maxShots = 3
    /\ game[1].nextShotUpgrade = 30

\* The splitters among the obstacles destroyed in the latest step.
SplittersDestroyed ==
    {k \in 1..Len(last.destroyed) :
        last.enemiesAtCollision[last.destroyed[k]].kind = "splitter"}

\* C10: destruction resolution appends, for every splitter destroyed, two
\* obstacles of kind shard with 1 hit-point each and nothing for any other
\* kind, after the obstacles that survived the collision phase; and every
\* destroyed obstacle, splitter or not, raises the score by exactly 1.
C10_SplitterShards ==
    [][Stepped =>
          LET kept == last'.enemiesFiltered
              after == last'.enemiesResolved
          IN  /\ Len(after) = Len(kept) + 2 * Cardinality(SplittersDestroyed')
              /\ SubSeq(after, 1, Len(kept)) = kept
              /\ \A i \in (Len(kept) + 1)..Len(after) :
                    after[i].kind = "shard" /\ after[i].hp = 1
              /\ game'[1].score - game[1].score = Len(last'.destroyed)]_vars

\* A splitter was destroyed and its two shards stand at the end of the
\* obstacle collection.
C10_Witness ==
    /\ last.valid /\ Cardinality(SplittersDestroyed) = 1
    /\ Len(last.destroyed) = 1
    /\ Len(last.enemiesResolved) = Len(last.enemiesFiltered) + 2

\* The top of a shard box: v held inside [0, 600 - shard height].
ShardTop(v, shardHeight) ==
    IF v < 0 THEN 0
    ELSE IF v > 600000 - shardHeight THEN 600000 - shardHeight ELSE v

\* Whether the two shards of every splitter destroyed in the latest step
\* stand at tops anchor(splitter) - 14 and anchor(splitter) + 14, clamped;
\* centred: the anchor is the top that centres the shard on the splitter,
\* otherwise it is the splitter's top.
ShardsPlaced(centred) ==
    \A k \in SplittersDestroyed :
        LET splitter == last.enemiesAtCollision[last.destroyed[k]]
            rank == Cardinality({m \in SplittersDestroyed : m <= k})
            first == Len(last.enemiesFiltered) + 2 * rank - 1
            shardHeight == (assets[1].enemy.height * 65) \div 100
            anchor == IF centred
                      THEN splitter.y + splitter.height \div 2
                             - shardHeight \div 2
                      ELSE splitter.y
        IN  /\ last.enemiesResolved[first].y =
                  ShardTop(anchor - 14000, shardHeight)
            /\ last.enemiesResolved[first + 1].y =
                  ShardTop(anchor + 14000, shardHeight)

\* C11, as claimed: the two shards of a destroyed splitter whose box top is
\* y have their box tops at y - 14 and y + 14, each clamped to
\* [0, 600 - shard height].
C11_ShardsOffsetFromTopAsClaimed == last.valid => ShardsPlaced(FALSE)

\* C11, amended: the two shards of a destroyed splitter with box top y and
\* height h have their box tops at y + h/2 - (shard height)/2 - 14 and
\* y + h/2 - (shard height)/2 + 14 (their centres 14 above and 14 below the
\* splitter's centre), each clamped to [0, 600 - shard height].
C11_ShardsOffsetFromCentre == last.valid => ShardsPlaced(TRUE)

\* A splitter destroyed at the top edge: the upper shard is clamped to 0,
\* the lower one stands 14 below the centred top.
C11_Witness ==
    /\ last.valid /\ Cardinality(SplittersDestroyed) = 1
    /\ last.enemiesAtCollision[last.destroyed[1]].y = 0
    /\ last.enemiesResolved[Len(last.enemiesResolved) - 1].y = 0
    /\ last.enemiesResolved[Len(last.enemiesResolved)].y = 22000

\* C12: when the player-obstacle collision phase resolves a contact at
\* timestamp now while shield >= 1, it lowers shield by exactly 1, leaves
\* lives alone and sets invulnerable-until to now + 1000; when shield is 0
\* it lowers lives by exactly 1, leaves shield at 0 and sets the same
\* invulnerable-until.
C12_ContactCostsShieldOrLife ==
    (last.valid /\ last.contact # 0) =>
        /\ last.invulnerableAfterContact = last.nowMs + 1000
        /\ IF last.shieldAtContact >= 1
           THEN /\ last.shieldAfterContact = last.shieldAtContact - 1
                /\ last.livesAfterContact = last.livesAtContact
           ELSE /\ last.shieldAfterContact = 0
                /\ last.livesAfterContact = last.livesAtContact - 1

\* A contact taken on the only shield charge: no life lost, shield at 0.
C12_Witness ==
    /\ last.valid /\ last.contact # 0 /\ last.shieldAtContact = 1
    /\ last.shieldAfterContact = 0
    /\ last.livesAfterContact = last.livesAtContact
    /\ game[1].lives >= 1

\* Whether a session state is the one a reset leaves, but for its timestamp.
FreshSession(state) ==
    /\ state.score = 0 /\ state.lives = 3
    /\ state.combo = 0 /\ state.comboExpiresAt = 0
    /\ state.shots = <<>> /\ state.enemies = <<>> /\ state.powerUps = <<>>
    /\ state.boostUntil = 0 /\ state.burstUntil = 0 /\ state.slowUntil = 0
    /\ state.player.shield = 0 /\ state.player.maxShots = 2
    /\ state.nextShotUpgrade = 15
    /\ state.player.lastShotMs = 0 /\ state.player.invulnerableUntil = 0

\* C13: every start action that moves the session to playing, from ready or
\* from gameover, leaves a fresh reset state whatever the previous session
\* left behind, and nothing but a step (or an exit) changes the state of a
\* playing session; so the first step of the new session begins with score
\* 0, lives 3, no shots, obstacles or power-ups, no active buffs, shield 0
\* and max-shots 2.
C13_StartResetsSession ==
    [][/\ (mode # "playing" /\ mode' = "playing") =>
             /\ FreshSession(game'[1])
             /\ stats' = [score |-> 0, lives |-> 3, ammo |-> 2, combo |-> 0,
                          shield |-> 0]
             /\ ~last'.valid
       /\ (mode = "playing" /\ mode' = "playing" /\ ~last.valid
             /\ game # <<>> /\ FreshSession(game[1])) =>
             (game' = game \/ (last'.valid /\ raf' # raf))]_vars

\* A session was started after frames had run: playing, fresh as of the
\* current clock, and no step of the new session has run yet.
C13_Witness ==
    /\ mode = "playing" /\ ~last.valid /\ audio.music
    /\ FreshSession(game[1])
    /\ game[1].lastSpawnMs = clock /\ clock > StartClock
    /\ raf > MaxKeyFrames + 1

\* C14: a frame callback that runs while the mode is ready or gameover
\* leaves the session state and the published stats unchanged (and with them
\* the mode and lastScore); the simulation step is applied only in frames
\* where the mode is playing.
C14_IdleFrameChangesNothing ==
    [][/\ (assetsReady /\ raf' # raf /\ mode # "playing") =>
             /\ game' = game /\ stats' = stats
             /\ mode' = mode /\ lastScore' = lastScore /\ last' = last
       /\ (last' # last /\ last'.valid) => (raf' # raf /\ mode = "playing")]_vars

\* Frames ran on the ready screen with obstacles due: the spawn interval has
\* passed since the reset and the state is still the reset's.
C14_Witness ==
    /\ mode = "ready" /\ assetsReady /\ game # <<>>
    /\ clock - game[1].lastSpawnMs >= 1100
    /\ game[1].enemies = <<>> /\ ~last.valid

\* C15: at the end of every step every obstacle of the collection has
\* hit-points >= 1: the obstacles the collision phase leaves are exactly
\* those with hit-points > 0, in their order, and no hit-points go below 0.
C15_NoSpentObstacles ==
    /\ game # <<>> =>
          \A i \in 1..Len(game[1].enemies) : game[1].enemies[i].hp >= 1
    /\ last.valid =>
          LET live == {j \in 1..Len(last.hpAfterCollision) :
                          last.hpAfterCollision[j] > 0}
          IN  /\ \A j \in 1..Len(last.hpAfterCollision) :
                     last.hpAfterCollision[j] >= 0
              /\ Len(last.enemiesFiltered) = Cardinality(live)
              /\ \A j \in live :
                    LET at == Cardinality({m \in live : m <= j})
                    IN  /\ last.enemiesFiltered[at].hp = last.hpAfterCollision[j]
                        /\ last.enemiesFiltered[at].x = last.enemiesAtCollision[j].x
                        /\ last.enemiesFiltered[at].kind
                              = last.enemiesAtCollision[j].kind

\* A step in which two shots took both hit-points of an armored obstacle,
\* which is gone from the collection while its neighbour stays.
C15_Witness ==
    /\ last.valid /\ Len(last.destroyed) = 1
    /\ last.enemiesAtCollision[last.destroyed[1]].hp = 2
    /\ last.hpAfterCollision[last.destroyed[1]] = 0
    /\ Len(last.enemiesFiltered) = Len(last.enemiesAtCollision) - 1
    /\ Len(last.enemiesFiltered) >= 1

\* C16: at the end of every step, combo > 0 implies that the step's
\* timestamp is not later than the combo expiry timestamp and that no
\* player-obstacle collision was resolved in that step, shielded or not.
C16_ComboResets ==
    (last.valid /\ game[1].combo > 0) =>
        /\ last.nowMs <= game[1].comboExpiresAt
        /\ last.contact = 0

\* The expiry phase reset a combo that nothing else had touched: no
\* escape, no kill and no contact in the step, and the expiry is behind.
C16_Witness ==
    /\ last.valid /\ game[1].combo = 0
    /\ game[1].comboExpiresAt > 0 /\ last.nowMs > game[1].comboExpiresAt
    /\ last.escaped = 0 /\ last.contact = 0 /\ last.destroyed = <<>>

\* C17: within a session lives never exceeds 3; over one whole step lives
\* goes down by exactly the number of obstacles that escaped in the step
\* plus 1 if a player-obstacle collision was resolved in the step while
\* shield was 0; and nothing else changes lives but a reset, which sets 3.
C17_LivesAccounting ==
    [][/\ game' # <<>> => game'[1].lives <= 3
       /\ Stepped =>
             game'[1].lives =
                 game[1].lives - last'.escaped
                   - (IF last'.contact # 0 /\ last'.shieldAtContact = 0
                      THEN 1 ELSE 0)
       /\ (game # <<>> /\ ~Stepped /\ game'[1].lives # game[1].lives) =>
             (raf' = raf /\ game'[1].lives = 3 /\ ~last'.valid)]_vars

\* One step took the last life twice over: two obstacles escaped from a
\* session with one life left.
C17_Witness ==
    /\ last.valid /\ last.escaped = 2 /\ last.contact = 0
    /\ game[1].lives = -1 /\ mode = "gameover"

\* The shots the state of the latest step still allows: max-shots, plus 2
\* while the burst buff runs at the step's timestamp, minus the active shots.
ShotsLeft ==
    game[1].player.maxShots
      + (IF last.nowMs < game[1].burstUntil THEN 2 ELSE 0)
      - Len(game[1].shots)

\* C18: after every step of a playing session the published stats are the
\* projection of the resulting state: score, lives, combo and shield passed
\* through and ammo = max(max-shots + (2 if now < burstUntil else 0) - the
\* number of active shots, 0).
C18_StatsAreProjection ==
    last.valid =>
        /\ stats.score = game[1].score /\ stats.lives = game[1].lives
        /\ stats.combo = game[1].combo
        /\ stats.shield = game[1].player.shield
        /\ stats.ammo = (IF ShotsLeft > 0 THEN ShotsLeft ELSE 0)
        /\ DOMAIN stats = {"score", "lives", "ammo", "combo", "shield"}

\* More shots in flight than the step allows (a burst volley outliving the
\* buff): the published ammo is 0, not negative.
C18_Witness ==
    /\ last.valid /\ ShotsLeft < 0 /\ stats.ammo = 0
    /\ stats.score = game[1].score /\ stats.score > 0

\* C19: a reset invoked while the asset dimensions are unavailable leaves
\* the session state, the input snapshot, the published stats and lastScore
\* exactly as they were, and a start action before the assets are ready
\* changes neither the mode nor the state.
C19_GuardedCallsChangeNothing ==
    [][calls' # calls =>
          /\ game' = game /\ controls' = controls /\ stats' = stats
          /\ lastScore' = lastScore /\ mode' = mode /\ audio' = audio
          /\ last' = last /\ assets' = assets /\ assetsReady' = assetsReady
          /\ clock' = clock /\ lastTime' = lastTime /\ raf' = raf]_vars

\* Calls were made while the assets were missing, with the shoot flag held
\* down on the touch controls: the flag is still set and there is no state.
C19_Witness ==
    /\ calls >= 1 /\ ~assetsReady /\ assets = <<>>
    /\ controls.shoot /\ game = <<>> /\ mode = "ready" /\ ~audio.unlocked

\* The shots of the latest collision phase that overlapped obstacle j.
Hitters(j) ==
    {i \in 1..Len(last.shotsAtCollision) :
        rectsIntersect(last.shotsAtCollision[i], last.enemiesAtCollision[j])}

\* No shot of the latest collision phase overlapped two obstacles: every
\* shot hit the obstacle it overlapped, while that one had hit-points left.
OneTargetEach ==
    \A i \in 1..Len(last.shotsAtCollision) :
        Cardinality({j \in 1..Len(last.enemiesAtCollision) :
                        i \in Hitters(j)}) <= 1

\* The shot that took the last hit-point of obstacle j (under OneTargetEach).
Killer(j) ==
    CHOOSE i \in Hitters(j) :
        Cardinality({h \in Hitters(j) : h <= i}) = last.enemiesAtCollision[j].hp

\* The place of destroyed obstacle j in the resolution order: by the shots
\* that destroyed them, or by their indices in the obstacle collection.
Place(j, byShot) ==
    1 + Cardinality({d \in KilledByShots :
                        IF byShot THEN Killer(d) < Killer(j) ELSE d < j})

\* Whether the traces destruction resolution left follow the given order:
\* the shards of a splitter stand after those of the splitters placed
\* before it, and, when every destroyed obstacle dropped a power-up, the
\* drops stand in that order (a drop is centred on its obstacle).
ResolvedInOrder(byShot) ==
    /\ \A j \in KilledByShots :
          last.enemiesAtCollision[j].kind = "splitter" =>
              LET source == last.enemiesAtCollision[j]
                  rank == Cardinality(
                      {d \in KilledByShots :
                          /\ last.enemiesAtCollision[d].kind = "splitter"
                          /\ Place(d, byShot) <= Place(j, byShot)})
                  first == Len(last.enemiesFiltered) + 2 * rank - 1
              IN  /\ last.enemiesResolved[first].x
                        = source.x + (source.width * 3) \div 10
                  /\ last.enemiesResolved[first + 1].x
                        = source.x + (source.width * 3) \div 10
                  /\ last.enemiesResolved[first].speed
                        = (source.speed * 12) \div 10
    /\ Len(last.powerUpsResolved)
          = Len(last.powerUpsAtCollision) + Cardinality(KilledByShots) =>
          \A j \in KilledByShots :
              LET source == last.enemiesAtCollision[j]
                  drop == last.powerUpsResolved[
                             Len(last.powerUpsAtCollision) + Place(j, byShot)]
              IN  /\ drop.x = source.x + source.width \div 2 - 15000
                  /\ drop.y = source.y + source.height \div 2 - 15000

\* C20, as claimed: the obstacles destroyed in a step are resolved in the
\* order they occupy in the obstacle collection, regardless of the order of
\* the shots that destroyed them.
C20_CollectionOrderAsClaimed ==
    (last.valid /\ OneTargetEach) => ResolvedInOrder(FALSE)

\* C20, amended: the obstacles destroyed in a step are resolved in the
\* order in which the shots destroyed them: when shots at positions a < b
\* of the shot collection destroy two obstacles in the same step, the score
\* and combo update, power-up drop and shard spawn of the obstacle shot a
\* destroyed come first, whatever the obstacles' indices.
C20_ShotOrder ==
    (last.valid /\ OneTargetEach) =>
        /\ ResolvedInOrder(TRUE)
        /\ \A k, m \in 1..Len(last.destroyed) :
              k < m => Killer(last.destroyed[k]) < Killer(last.destroyed[m])

\* The first shot destroyed the second obstacle and the second shot the
\* first, both splitters, and both dropped a power-up.
C20_Witness ==
    /\ last.valid /\ OneTargetEach /\ KilledByShots = {1, 2}
    /\ Killer(2) < Killer(1)
    /\ last.enemiesAtCollision[1].kind = "splitter"
    /\ last.enemiesAtCollision[2].kind = "splitter"
    /\ Len(last.powerUpsResolved) = 2
    /\ Len(last.enemiesResolved) = 4

\* The obstacles the player box overlapped when the contact phase of the
\* latest step ran.
OnPlayer ==
    {j \in 1..Len(last.enemiesResolved) :
        rectsIntersect(last.playerMoved, last.enemiesResolved[j])}

\* Whether the contact phase of the latest step was open: the step's
\* timestamp had reached invulnerable-until.
Vulnerable == last.nowMs >= last.playerMoved.invulnerableUntil

\* What contact cost in the latest step, in shield charges plus lives.
ContactCost ==
    (last.shieldAtContact - last.shieldAfterContact)
      + (last.livesAtContact - last.livesAfterContact)

\* C21: in one step at most one obstacle is removed by player contact, the
\* first in collection order that intersects the player; every other
\* obstacle, those on the player included, stays in its relative order; and
\* shield plus lives drop by at most 1 from contact (by 1 when an obstacle
\* is removed, by 0 otherwise).
C21_OneContactPerStep ==
    last.valid =>
        LET before == last.enemiesResolved
            after == last.enemiesAfterContact
        IN  IF Vulnerable /\ OnPlayer # {}
            THEN LET hit == CHOOSE j \in OnPlayer : \A k \in OnPlayer : j <= k
                 IN  /\ Len(after) = Len(before) - 1
                     /\ \A k \in 1..Len(after) :
                           after[k] = before[IF k < hit THEN k ELSE k + 1]
                     /\ ContactCost = 1
            ELSE after = before /\ ContactCost = 0

\* Two obstacles were on the player: the first is gone, the second stays
\* where the first was.
C21_Witness ==
    /\ last.valid /\ Vulnerable /\ OnPlayer = {1, 2}
    /\ last.enemiesAfterContact = <<last.enemiesResolved[2]>>
    /\ ContactCost = 1

\* Whether the step being taken falls in the invulnerability window
\* [t, t + 1000) of the session's latest contact, resolved at t: contact is
\* the only writer of invulnerable-until within a session and sets it to
\* t + 1000.
InWindow ==
    LET until == game[1].player.invulnerableUntil
    IN  /\ until > 0
        /\ last'.nowMs >= until - INVULNERABLE_MS
        /\ last'.nowMs < until

\* Whether the step being taken resolves no contact.
NoContactResolved ==
    /\ last'.enemiesAfterContact = last'.enemiesResolved
    /\ last'.shieldAfterContact = last'.shieldAtContact
    /\ last'.livesAfterContact = last'.livesAtContact
    /\ last'.invulnerableAfterContact = game[1].player.invulnerableUntil

\* C22 as claimed: after a contact resolved at timestamp t, no step with
\* timestamp in [t, t + 1000) resolves another contact, and the player
\* takes no damage of any kind in that window: neither shield nor lives
\* drop.
C22_NoDamageInWindowAsClaimed ==
    [][(Stepped /\ InWindow) =>
          /\ NoContactResolved
          /\ game'[1].lives = game[1].lives
          /\ game'[1].player.shield >= game[1].player.shield]_vars

\* C22, amended: after a contact resolved at timestamp t (which sets
\* invulnerable-until to t + 1000), no step with timestamp in [t, t + 1000)
\* resolves another contact: no shield charge or life is lost through
\* contact and no obstacle is removed for overlapping the player. Lives can
\* still drop in the window, by one per obstacle that escapes.
C22_NoContactInWindow ==
    [][Stepped =>
          /\ InWindow =>
               /\ NoContactResolved
               /\ game'[1].player.shield >= game[1].player.shield
               /\ game'[1].lives = game[1].lives - last'.escaped
          /\ ~NoContactResolved =>
               last'.invulnerableAfterContact = last'.nowMs + INVULNERABLE_MS]_vars

\* A step inside the window with an obstacle on the player: no contact was
\* resolved, and an obstacle that escaped took a life all the same.
C22_Witness ==
    /\ last.valid /\ ~Vulnerable /\ OnPlayer # {}
    /\ last.enemiesAfterContact = last.enemiesResolved
    /\ ContactCost = 0
    /\ last.escaped = 1
    /\ game[1].lives = 1

\* Whether the latest step emitted shots.
Emitted == last.shotsAfterFire > last.shotsBefore

\* C23: a step emits shots only while fire is held and only when at least
\* 250 ms (140 ms when the burst is active at that step) have passed since
\* the previous emitting step; an emitting step sets the last-shot
\* timestamp to the step's timestamp and a non-emitting step leaves it.
C23_ShotCadence ==
    [][Stepped =>
          LET before == game[1].player.lastShotMs
              now == last'.nowMs
              needed == IF now < game[1].burstUntil THEN 140 ELSE 250
          IN  /\ last'.lastShotBefore = before
              /\ Emitted' =>
                   /\ controls.shoot
                   /\ now - before >= needed
                   /\ game'[1].player.lastShotMs = now
              /\ ~Emitted' => game'[1].player.lastShotMs = before]_vars

\* With the burst active a step emitted 150 ms after the previous shot,
\* short of the 250 ms needed without the burst.
C23_Witness ==
    /\ last.valid /\ Emitted /\ last.burstActive
    /\ last.nowMs - last.lastShotBefore = 150
    /\ game[1].player.lastShotMs = last.nowMs

\* How many power-ups of a kind the player box overlapped when the pickup
\* phase of the latest step ran.
PickedOf(kind) ==
    Cardinality({i \in 1..Len(last.powerUpsResolved) :
                    /\ last.powerUpsResolved[i].kind = kind
                    /\ rectsIntersect(last.playerMoved,
                                      last.powerUpsResolved[i])})

\* An expiry after n pickups of its kind at timestamp now.
Extended(until, now, n, duration) ==
    IF n = 0 THEN until ELSE Max(until, now) + n * duration

\* C24: picking up a boost, burst or slow power-up at timestamp now sets
\* that effect's expiry to max(previous expiry, now) + 6000, 6000 or 5200 ms
\* and leaves the other two alone; several power-ups of one kind picked up
\* in one step apply once each; a shield pickup sets shield to
\* min(2, shield + 1) and changes no expiry.
C24_PickupEffects ==
    [][Stepped =>
          LET now == last'.nowMs
          IN  /\ game'[1].boostUntil
                   = Extended(game[1].boostUntil, now, PickedOf("boost")', 6000)
              /\ game'[1].burstUntil
                   = Extended(game[1].burstUntil, now, PickedOf("burst")', 6000)
              /\ game'[1].slowUntil
                   = Extended(game[1].slowUntil, now, PickedOf("slow")', 5200)
              /\ game'[1].player.shield
                   = Min(2, last'.shieldAfterContact + PickedOf("shield")')
              /\ last'.pickedUp
                   = PickedOf("boost")' + PickedOf("burst")'
                       + PickedOf("slow")' + PickedOf("shield")']_vars

\* Two burst power-ups picked up in one step while a burst was running: the
\* expiry moved from its previous value, later than now, by twice 6000.
C24_Witness ==
    /\ last.valid /\ PickedOf("burst") = 2 /\ last.pickedUp = 2
    /\ last.burstActive
    /\ game[1].burstUntil = StartClock + 1300 + 12000
    /\ game[1].boostUntil = 0 /\ game[1].slowUntil = 0
    /\ Len(game[1].powerUps) = 1

\* C25: the spawner appends at most one obstacle per step, and only when
\* now - lastSpawnMs >= max(350, 1100 - 80 * floor(score / 10)); it then sets
\* lastSpawnMs to now, and a step that spawns nothing leaves lastSpawnMs
\* alone, so that consecutive spawns are at least 350 ms apart.
C25_SpawnCadence ==
    [][Stepped =>
          LET before == game[1].lastSpawnMs
              now == last'.nowMs
              needed == Max(350, 1100 - 80 * (game[1].score \div 10))
          IN  /\ last'.lastSpawnBefore = before
              /\ last'.spawned \in {0, 1}
              /\ last'.spawned = 1 =>
                   /\ now - before >= needed
                   /\ now - before >= 350
                   /\ game'[1].lastSpawnMs = now
              /\ last'.spawned = 0 => game'[1].lastSpawnMs = before]_vars

\* At score 100, where the formula without its floor gives 300 ms, a step
\* 300 ms after the latest spawn spawned nothing and the step 350 ms after
\* it spawned one obstacle.
C25_Witness ==
    /\ last.valid /\ last.spawned = 1
    /\ game[1].score = 100
    /\ last.lastSpawnBefore = StartClock - 250
    /\ last.nowMs - last.lastSpawnBefore = 350
    /\ game[1].lastSpawnMs = last.nowMs
    /\ Len(game[1].enemies) = 1

\* The hit-points the collision phase of the latest step took from the
\* first n obstacles.
RECURSIVE HpTaken(_)
HpTaken(n) ==
    IF n = 0 THEN 0
    ELSE HpTaken(n - 1)
           + (last.enemiesAtCollision[n].hp - last.hpAfterCollision[n])

\* The obstacles a shot overlapped in the latest collision phase.
Under(shot) ==
    {j \in 1..Len(last.enemiesAtCollision) :
        rectsIntersect(shot, last.enemiesAtCollision[j])}

\* C26: in the collision phase every shot either hits nothing and stays, or
\* is removed and lowers exactly one obstacle's hit-points by 1: the number
\* of shots removed equals the hit-points removed; and an obstacle brought
\* to 0 hit-points absorbs no further shot, so no obstacle goes below 0 and
\* a shot that stays overlaps no obstacle that still has hit-points.
C26_OneShotOneHitPoint ==
    last.valid =>
        LET n == Len(last.enemiesAtCollision)
            removed == Len(last.shotsAtCollision) - Len(game[1].shots)
        IN  /\ removed = HpTaken(n)
            /\ removed = last.hitCount
            /\ Len(game[1].shots) = last.survivors
            /\ \A j \in 1..n :
                  /\ last.hpAfterCollision[j] >= 0
                  /\ last.hpAfterCollision[j] <= last.enemiesAtCollision[j].hp
            /\ \A k \in 1..Len(game[1].shots) :
                  /\ \E i \in 1..Len(last.shotsAtCollision) :
                        last.shotsAtCollision[i] = game[1].shots[k]
                  /\ \A j \in Under(game[1].shots[k]) :
                        last.hpAfterCollision[j] = 0

\* Two shots over one obstacle with a single hit-point: the first took it,
\* the second stayed.
C26_Witness ==
    /\ last.valid /\ Len(last.shotsAtCollision) = 2
    /\ Under(last.shotsAtCollision[1]) = {1}
    /\ Under(last.shotsAtCollision[2]) = {1}
    /\ last.enemiesAtCollision[1].hp = 1 /\ last.hpAfterCollision[1] = 0
    /\ last.hitCount = 1
    /\ game[1].shots = <<last.shotsAtCollision[2]>>

\* C27: the power-up collection holds at most 3 power-ups in every
\* reachable state.
C27_AtMostThreePowerUps ==
    /\ game # <<>> => Len(game[1].powerUps) <= 3
    /\ last.valid => Len(last.powerUpsResolved) <= 3

\* Two obstacles destroyed in one step while two power-ups were held: the
\* collection took one drop and stands at three.
C27_Witness ==
    /\ last.valid /\ Cardinality(KilledByShots) = 2
    /\ Len(last.powerUpsAtCollision) = 2
    /\ Len(last.powerUpsResolved) = 3
    /\ Len(game[1].powerUps) = 3

\* How many obstacles of a kind a collection holds.
CountOf(kind, enemies) ==
    Cardinality({j \in 1..Len(enemies) : enemies[j].kind = kind})

\* The score gates on what a session's collection holds.
KindsGated ==
    game # <<>> =>
        /\ game[1].score < 18 =>
              /\ CountOf("splitter", game[1].enemies) = 0
              /\ CountOf("shard", game[1].enemies) = 0
        /\ game[1].score < 8 =>
              /\ CountOf("armored", game[1].enemies) = 0
              /\ \A j \in 1..Len(game[1].enemies) : game[1].enemies[j].hp = 1

\* C28: while the score is below 18 the collection holds no splitter and no
\* shard; while it is below 8 it holds no armored obstacle, so every
\* obstacle has 1 hit-point; and a shard enters the collection only as the
\* product of a destroyed splitter: a step adds two per splitter destroyed,
\* in destruction resolution, and nothing else adds any.
C28_KindsByScore ==
    /\ []KindsGated
    /\ [][IF Stepped
          THEN /\ CountOf("shard", last'.enemiesAtCollision)
                    <= CountOf("shard", game[1].enemies)
               /\ CountOf("shard", last'.enemiesResolved)
                    = CountOf("shard", last'.enemiesFiltered)
                        + 2 * Cardinality(SplittersDestroyed')
               /\ CountOf("shard", game'[1].enemies)
                    <= CountOf("shard", last'.enemiesResolved)
          ELSE game' # <<>> =>
                 /\ game # <<>>
                      => CountOf("shard", game'[1].enemies)
                           <= CountOf("shard", game[1].enemies)
                 /\ game = <<>> => CountOf("shard", game'[1].enemies) = 0]_vars

\* A session that went from 17 to 18 by a kill and then spawned its first
\* splitter.
C28_Witness ==
    /\ last.valid /\ last.spawned = 1
    /\ game[1].score = 18
    /\ Len(game[1].enemies) >= 2
    /\ game[1].enemies[Len(game[1].enemies)].kind = "splitter"
    /\ CountOf("splitter", game[1].enemies) = 1
    /\ CountOf("armored", game[1].enemies) >= 1

\* Whether the step being taken sends the game-over signal: it asks for the
\* game-over sound, stops the music, records the score and leaves playing.
SignalsGameOver ==
    /\ mode' = "gameover"
    /\ ~audio'.music
    /\ lastScore' = game'[1].score
    /\ audio.unlocked =>
          last'.sounds[Len(last'.sounds)] = "gameOver"

\* Whether the step being taken sends no game-over signal.
SignalsNothing ==
    /\ mode' = "playing"
    /\ lastScore' = lastScore
    /\ audio' = audio
    /\ \A k \in 1..Len(last'.sounds) : last'.sounds[k] # "gameOver"

\* What C29 says of lives and of the signal being sent no more than once:
\* a step starts with lives >= 1; it signals game over if and only if it
\* ends with lives <= 0, leaving mode playing, so that no later step of the
\* session can signal again; nothing but a step enters mode gameover or
\* records a score; and a step ends below 0 only by losing 2 or more.
LivesAndSignal ==
    /\ Stepped =>
          /\ game[1].lives >= 1
          /\ IF game'[1].lives <= 0 THEN SignalsGameOver ELSE SignalsNothing
          /\ game'[1].lives < 0 =>
                /\ game[1].lives - game'[1].lives >= 2
                /\ game[1].lives - game'[1].lives
                     = last'.escaped
                         + (last'.livesAtContact - last'.livesAfterContact)
    /\ ~Stepped =>
          /\ mode' = "gameover" => mode = "gameover"
          /\ lastScore' \in {lastScore, 0}
    /\ (mode = "gameover" /\ raf' # raf) => UNCHANGED <<game, last, lastScore>>

\* Whether the action being taken discards the session: a reset outside a
\* frame replaces the state.
SessionDiscarded == game # <<>> /\ raf' = raf /\ ~last'.valid /\ last.valid

\* C29 as claimed: at every frame boundary mode = playing implies
\* lives >= 1, so a step never starts with lives <= 0; the game-over signal
\* and the recording of lastScore happen exactly once per session, so no
\* session that is being played is discarded before its signal; and lives
\* end a session below 0 only through several losses in the final step.
C29_SignalExactlyOnceAsClaimed ==
    /\ []((mode = "playing" /\ game # <<>>) => game[1].lives >= 1)
    /\ [][/\ LivesAndSignal
          /\ SessionDiscarded => mode # "playing"]_vars

\* C29, amended: at every frame boundary mode = playing implies lives >= 1,
\* so a step never starts with lives <= 0; the game-over signal and the
\* recording of lastScore happen at most once per session: once, in its
\* final step, in a session that runs out of lives, and never in a session
\* that is exited while it is being played; and lives end a session below
\* 0 only through several losses in the final step.
C29_SignalAtMostOnce ==
    /\ []((mode = "playing" /\ game # <<>>) => game[1].lives >= 1)
    /\ [][/\ LivesAndSignal
          /\ (SessionDiscarded /\ mode = "playing") =>
                (mode' = "ready" /\ lastScore' = 0 /\ ~audio'.music)]_vars

\* A session ended below 0: its last life went to an escape and to a
\* contact in the same step, which signalled game over and recorded the
\* score.
C29_Witness ==
    /\ last.valid /\ mode = "gameover"
    /\ game[1].lives = -1
    /\ last.escaped = 1
    /\ last.livesAtContact - last.livesAfterContact = 1
    /\ lastScore = game[1].score
    /\ ~audio.music
    /\ last.sounds # <<>> /\ last.sounds[Len(last.sounds)] = "gameOver"

====
